---- MODULE Spec2Model ----
(***************************************************************************)
(* A model of the JSON-RPC 2.0 dispatcher of sjinks/jsonrpc-cpp.           *)
(*                                                                         *)
(* The repository holds two revisions of the request-processing code:     *)
(*   - dispatcher_private::process_request     (src/src/dispatcher_p.cpp)  *)
(*   - dispatcher::process_request             (src/src/dispatcher.cpp,    *)
(*     with src/src/request.cpp and src/src/utils.cpp)                     *)
(* Both are modelled, each from its own source, and a call of the          *)
(* dispatcher picks one of them (variable impl).                          *)
(*                                                                         *)
(* A JSON value is a tagged tuple <<type_name, payload>>; the tag is the   *)
(* name nlohmann::json::type_name() gives the value.  An object's payload  *)
(* is a function from its member names to JSON values.                     *)
(***************************************************************************)
EXTENDS Integers, Sequences, FiniteSets, TLC

VARIABLES
    m_methods,   \* the method registry: a function from the registered names to handlers
    pc,          \* "idle": between calls; "returned": process_request has returned;
                 \* "added": add_handler has returned; "text_returned":
                 \* parse_and_process_request has returned
    impl,        \* the entry point of the last call: "private", "dispatcher" or "text"
    request,     \* the input of the last call (a text for parse_and_process_request)
    extra,       \* the host data of the last call
    response,    \* the value the last call returned (a text for parse_and_process_request)
    hooks,       \* the instrumentation calls of the last call, in order
    hook_extra,  \* the extra argument of each of them (dispatcher_private only)
    calls,       \* the handler bodies the last call ran, in order
    batches,     \* how many times the last call entered the batch branch
    last_add,    \* the registration add_handler has just made, if any
    build        \* the order in which the build evaluates the arguments of a call:
                 \* "left_to_right" or "right_to_left", or "any" where every order
                 \* is followed at once

vars == <<m_methods, pc, impl, request, extra, response, hooks, hook_extra, calls, batches,
          last_add, build>>

-----------------------------------------------------------------------------
(* JSON values *)

null == <<"null">>
discarded == <<"discarded">>
Bool(b) == <<"boolean", b>>
Num(n) == <<"number", n>>
Str(s) == <<"string", s>>
Arr(s) == <<"array", s>>
Obj(f) == <<"object", f>>

type_name(j) == j[1]
is_null(j) == j[1] = "null"
is_discarded(j) == j[1] = "discarded"
is_boolean(j) == j[1] = "boolean"
is_number(j) == j[1] = "number"
is_string(j) == j[1] = "string"
is_array(j) == j[1] = "array"
is_object(j) == j[1] = "object"

\* json::contains(key): false for a value that is not an object
contains(j, key) == is_object(j) /\ key \in DOMAIN j[2]

\* json::size() of an array or an object; json::empty()
size(j) == IF is_array(j) THEN Len(j[2])
           ELSE IF is_object(j) THEN Cardinality(DOMAIN j[2])
           ELSE IF is_null(j) THEN 0 ELSE 1
empty(j) == size(j) = 0

\* json::erase(key) on an object
erase(j, key) == Obj([k \in DOMAIN j[2] \ {key} |-> j[2][k]])

\* j[key] = v on an object
set_member(j, key, v) ==
    Obj([k \in DOMAIN j[2] \cup {key} |-> IF k = key THEN v ELSE j[2][k]])

EmptyObject == Obj([k \in {} |-> null])

-----------------------------------------------------------------------------
(* Errors: exception.h *)

PARSE_ERROR == -32700
INVALID_REQUEST == -32600
METHOD_NOT_FOUND == -32601
INVALID_PARAMS == -32602
INTERNAL_ERROR == -32603

err_not_jsonrpc_2_0_request == "Not a JSON-RPC 2.0 request"
err_invalid_params_passed_to_method == "Invalid parameters passed to method"
err_method_not_found == "Method not found"
err_empty_method == "Method cannot be empty"
err_bad_params_type == "Parameters must be either an array or an object or omitted"
err_bad_id_type == "ID must be either a number, a string, or null"
err_empty_batch == "Empty batch request"

\* json_rpc::exception(code, message[, data]): the value thrown
exception(code, message, data) == [code |-> code, message |-> message, data |-> data]

\* to_json leaving the data out
to_json_without_data(e) ==
    Obj([code |-> Num(e.code), message |-> Str(e.message)])

\* to_json writing the data member whatever the data is
to_json_with_null_data(e) ==
    Obj([code |-> Num(e.code), message |-> Str(e.message), data |-> e.data])

\* exception::to_json(): code and message, and data only when it is not null
to_json(e) ==
    IF ~is_null(e.data)
    THEN Obj([code |-> Num(e.code), message |-> Str(e.message), data |-> e.data])
    ELSE Obj([code |-> Num(e.code), message |-> Str(e.message)])

\* The outcome of a block of code: a value, or a thrown exception.
\* kind "rpc" is json_rpc::exception, "json" is nlohmann::json::exception,
\* "std" is any other std::exception; what is e.what().
Value(v) == [ok |-> TRUE, value |-> v]
ThrowRpc(e) == [ok |-> FALSE, kind |-> "rpc", e |-> e, what |-> e.message]
ThrowJson(what) == [ok |-> FALSE, kind |-> "json", what |-> what]
ThrowStd(what) == [ok |-> FALSE, kind |-> "std", what |-> what]

\* what() of the nlohmann exceptions the dispatcher can meet
json_key_not_found(key) == "[json.exception.out_of_range.403] key '" \o key \o "' not found"
json_type_must_be(want, j) ==
    "[json.exception.type_error.302] type must be " \o want \o ", but is " \o type_name(j)
json_cannot_use_at(j) == "[json.exception.type_error.304] cannot use at() with " \o type_name(j)

-----------------------------------------------------------------------------
(* utils.cpp *)

is_valid_request_id(id) == is_string(id) \/ is_number(id) \/ is_null(id) \/ is_discarded(id)

get_request_id(req) ==
    LET id == IF contains(req, "id") THEN req[2]["id"] ELSE null
    IN  IF is_valid_request_id(id) THEN id ELSE null

\* generate_error_response with a null result next to the error
generate_error_response_with_result(e, id) ==
    Obj([jsonrpc |-> Str("2.0"), result |-> null, error |-> to_json(e), id |-> id])

generate_error_response(e, id) ==
    Obj([jsonrpc |-> Str("2.0"), error |-> to_json(e), id |-> id])

\* result_response with the id written as text: a numeric id comes back a string
result_response_stringified_id(res, id) ==
    Obj([jsonrpc |-> Str("2.0"), result |-> res,
         id |-> IF is_number(id) THEN Str(ToString(id[2])) ELSE id])

\* The response of a request that succeeded: {jsonrpc, result, id}
result_response(res, id) ==
    Obj([jsonrpc |-> Str("2.0"), result |-> res, id |-> id])

-----------------------------------------------------------------------------
(* Handlers: dispatcher.h, details.h *)

\* A registered handler is the closure create_closure<C, F, Extra, Args> builds:
\* Extra is "void" for a handler added with add() and the type of the first
\* argument of F for one added with add_ex(), Args are the types of all the
\* arguments of F, and func names F.
Closure(Extra, Args, func) == [Extra |-> Extra, Args |-> Args, func |-> func]

\* The handler functions of the model (the bodies F the host registers).
\*   no_params()            returns 24
\*   subtract(subtract_params) returns minuend - subtrahend of the structure
\*   subtract_p(int, int)   returns the difference
\*   notify_hello(int)      returns nothing
\*   echo(json)             returns the params it was given
\*   throwing()             throws std::invalid_argument("test")
\*   failing()              throws json_rpc::exception(-1, "failed", 123)
\*   extra_json(json extra) added with add_ex, returns nothing
\*   extra_ip(extra_data_ip extra, int, int) added with add_ex, returns nothing
\*   extra_full(extra_data extra, int, int) added with add_ex, returns nothing
no_params == Closure("void", <<>>, "no_params")
subtract == Closure("void", <<"subtract_params">>, "subtract")
subtract_p == Closure("void", <<"int", "int">>, "subtract_p")
notify_hello == Closure("void", <<"int">>, "notify_hello")
echo == Closure("void", <<"json">>, "echo")
throwing == Closure("void", <<>>, "throwing")
failing == Closure("void", <<>>, "failing")
extra_json == Closure("json", <<"json">>, "extra_json")
extra_ip == Closure("extra_data_ip", <<"extra_data_ip", "int", "int">>, "extra_ip")
extra_full == Closure("extra_data", <<"extra_data", "int", "int">>, "extra_full")

Handlers == {no_params, subtract, subtract_p, notify_hello, echo, throwing, failing,
             extra_json, extra_ip, extra_full}

\* The body of F applied to its converted arguments; a void F yields nothing.
func_body(func, args) ==
    CASE func = "no_params" -> Value(Num(24))
      [] func = "subtract" -> Value(Num(args[1].minuend - args[1].subtrahend))
      [] func = "subtract_p" -> Value(Num(args[1] - args[2]))
      [] func = "notify_hello" -> Value(discarded)
      [] func = "echo" -> Value(args[1])
      [] func = "throwing" -> ThrowStd("test")
      [] func = "failing" -> ThrowRpc(exception(-1, "failed", Num(123)))
      [] func = "extra_json" -> Value(discarded)
      [] func = "extra_ip" -> Value(discarded)
      [] func = "extra_full" -> Value(discarded)

\* details::invoke_function: a void function's result is null
invoke_function(func, args) ==
    LET r == func_body(func, args)
    IN  IF r.ok /\ is_discarded(r.value) THEN Value(null) ELSE r

\* json::get<T>() for the parameter types of the model
get_as(type, j) ==
    CASE type = "json" -> Value(j)
      [] type = "int" ->
            IF is_number(j) THEN Value(j[2])
            ELSE IF is_boolean(j) THEN Value(IF j[2] THEN 1 ELSE 0)
            ELSE ThrowJson(json_type_must_be("number", j))
      [] type = "extra_data_ip" ->
            IF ~is_object(j) THEN ThrowJson(json_cannot_use_at(j))
            ELSE IF ~contains(j, "ip") THEN ThrowJson(json_key_not_found("ip"))
            ELSE IF ~is_string(j[2]["ip"]) THEN ThrowJson(json_type_must_be("string", j[2]["ip"]))
            ELSE Value([ip |-> j[2]["ip"][2]])
      [] type = "extra_data" ->
            IF ~is_object(j) THEN ThrowJson(json_cannot_use_at(j))
            ELSE IF ~contains(j, "ip") THEN ThrowJson(json_key_not_found("ip"))
            ELSE IF ~is_string(j[2]["ip"]) THEN ThrowJson(json_type_must_be("string", j[2]["ip"]))
            ELSE IF ~contains(j, "extra") THEN ThrowJson(json_key_not_found("extra"))
            ELSE Value([ip |-> j[2]["ip"][2], extra |-> j[2]["extra"]])
      [] type = "subtract_params" ->
            IF ~is_object(j) THEN ThrowJson(json_cannot_use_at(j))
            ELSE IF ~contains(j, "minuend") THEN ThrowJson(json_key_not_found("minuend"))
            ELSE IF ~(is_number(j[2]["minuend"]) \/ is_boolean(j[2]["minuend"]))
            THEN ThrowJson(json_type_must_be("number", j[2]["minuend"]))
            ELSE IF ~contains(j, "subtrahend") THEN ThrowJson(json_key_not_found("subtrahend"))
            ELSE IF ~(is_number(j[2]["subtrahend"]) \/ is_boolean(j[2]["subtrahend"]))
            THEN ThrowJson(json_type_must_be("number", j[2]["subtrahend"]))
            ELSE Value([minuend |-> IF is_number(j[2]["minuend"]) THEN j[2]["minuend"][2]
                                    ELSE IF j[2]["minuend"][2] THEN 1 ELSE 0,
                        subtrahend |-> IF is_number(j[2]["subtrahend"]) THEN j[2]["subtrahend"][2]
                                       ELSE IF j[2]["subtrahend"][2] THEN 1 ELSE 0])

\* convert_args without its catch clause: the exception of the conversion
\* leaves as it is
convert_args_without_catch(Args, offset, params) ==
    LET n == Len(Args) - offset
        conv == [i \in 1..n |-> get_as(Args[i + offset], params[2][i])]
        bad == {i \in 1..n : ~conv[i].ok}
    IN  IF bad = {}
        THEN {Value([i \in 1..n |-> conv[i].value])}
        ELSE {conv[i] : i \in bad}

\* details::convert_args: every element converted to the type of its argument;
\* a conversion that throws becomes INVALID_PARAMS with the same text.  The
\* conversions are arguments of one make_tuple call, evaluated in the order of
\* the build: the first failing one in that order is the one reported.  The
\* result is the set of possible outcomes.
convert_args(Args, offset, params) ==
    LET n == Len(Args) - offset
        conv == [i \in 1..n |-> get_as(Args[i + offset], params[2][i])]
        bad == {i \in 1..n : ~conv[i].ok}
        reported == CASE build = "left_to_right" -> {i \in bad : \A j \in bad : i <= j}
                      [] build = "right_to_left" -> {i \in bad : \A j \in bad : i >= j}
                      [] OTHER -> bad
    IN  IF bad = {}
        THEN {Value([i \in 1..n |-> conv[i].value])}
        ELSE {ThrowRpc(exception(INVALID_PARAMS, conv[i].what, null)) : i \in reported}

\* details::make_extra_tuple<Extra>(extra): nothing for a handler without a
\* context argument, the json itself for a json context, else the json
\* converted to Extra; a conversion that throws becomes INVALID_REQUEST with
\* the same text.
make_extra_tuple(Extra, extra_data) ==
    IF Extra = "void" THEN Value(<<>>)
    ELSE IF Extra = "json" THEN Value(<<extra_data>>)
    ELSE LET c == get_as(Extra, extra_data)
         IN  IF c.ok THEN Value(<<c.value>>)
             ELSE ThrowRpc(exception(INVALID_REQUEST, c.what, null))

\* tuple_cat following every order of evaluation whatever the build
tuple_cat_in_any_order(context, converted) ==
    IF context.ok /\ converted.ok THEN {Value(context.value \o converted.value)}
    ELSE {t \in {context, converted} : ~t.ok}

\* std::tuple_cat(make_extra_tuple(...), converted params): the two are
\* arguments of one call, evaluated in an order the language leaves open, so
\* when both throw, the exception that leaves is the one of the argument the
\* build evaluates first.
tuple_cat(context, converted) ==
    IF context.ok /\ converted.ok THEN {Value(context.value \o converted.value)}
    ELSE IF ~context.ok /\ ~converted.ok
    THEN CASE build = "left_to_right" -> {context}
           [] build = "right_to_left" -> {converted}
           [] OTHER -> {context, converted}
    ELSE {t \in {context, converted} : ~t.ok}

\* The end of the closure: invoke_function on the tuple if it was built
apply_closure(func, tuples) ==
    {IF t.ok
     THEN [out |-> invoke_function(func, t.value), calls |-> << <<func, t.value>> >>]
     ELSE [out |-> t, calls |-> <<>>]
     : t \in tuples}

\* create_closure without the branch for the single nlohmann::json argument
create_closure_no_generic(h, extra_data, params) ==
    LET args_size == Len(h.Args)
        arg_pos == IF h.Extra = "void" THEN 0 ELSE 1
    IN  IF size(params) + arg_pos = args_size
        THEN UNION {apply_closure(h.func, t)
                    : t \in {tuple_cat(make_extra_tuple(h.Extra, extra_data), c)
                             : c \in convert_args(h.Args, arg_pos, params)}}
        ELSE {[out |-> ThrowRpc(exception(INVALID_PARAMS,
                                          err_invalid_params_passed_to_method, null)),
               calls |-> <<>>]}

\* create_closure accepting more positional values than F has arguments
create_closure_allows_surplus(h, extra_data, params) ==
    LET args_size == Len(h.Args)
        arg_pos == IF h.Extra = "void" THEN 0 ELSE 1
    IN  IF args_size = arg_pos + 1 /\ h.Args[arg_pos + 1] = "json"
        THEN apply_closure(h.func, tuple_cat(make_extra_tuple(h.Extra, extra_data),
                                             Value(<<params>>)))
        ELSE IF size(params) + arg_pos >= args_size
        THEN UNION {apply_closure(h.func, t)
                    : t \in {tuple_cat(make_extra_tuple(h.Extra, extra_data), c)
                             : c \in convert_args(h.Args, arg_pos, params)}}
        ELSE {[out |-> ThrowRpc(exception(INVALID_PARAMS,
                                          err_invalid_params_passed_to_method, null)),
               calls |-> <<>>]}

\* The closure built by create_closure, applied to (extra, params): the set of
\* its possible outcomes, each with the calls of F it made.
create_closure(h, extra_data, params) ==
    LET args_size == Len(h.Args)
        arg_pos == IF h.Extra = "void" THEN 0 ELSE 1
    IN  IF args_size = arg_pos + 1 /\ h.Args[arg_pos + 1] = "json"
        THEN apply_closure(h.func, tuple_cat(make_extra_tuple(h.Extra, extra_data),
                                             Value(<<params>>)))
        ELSE IF size(params) + arg_pos = args_size
        THEN UNION {apply_closure(h.func, t)
                    : t \in {tuple_cat(make_extra_tuple(h.Extra, extra_data), c)
                             : c \in convert_args(h.Args, arg_pos, params)}}
        ELSE {[out |-> ThrowRpc(exception(INVALID_PARAMS,
                                          err_invalid_params_passed_to_method, null)),
               calls |-> <<>>]}

-----------------------------------------------------------------------------
(* What one call of process_request does besides returning a value *)

\* response: the value returned; hooks: the instrumentation calls made;
\* calls: the handler functions run; batches: entries into the batch branch.
Out(resp, hk, cl, b) == [response |-> resp, hooks |-> hk, calls |-> cl, batches |-> b]

on_request == <<"on_request">>
on_method(method) == <<"on_method", method>>
on_request_processed(method, code) == <<"on_request_processed", method, code>>
\* The handler body being entered, in its place among the hook calls
handler_called(func) == <<"handler", func>>
request_failed(id, code, is_batch) == <<"request_failed", id, code, is_batch>>

-----------------------------------------------------------------------------
(* dispatcher_p.cpp: dispatcher_private *)

\* from_json leaving an object params as it is
from_json_keeps_object(j) ==
    IF ~is_object(j) THEN ThrowJson(json_cannot_use_at(j))
    ELSE IF ~contains(j, "jsonrpc") THEN ThrowJson(json_key_not_found("jsonrpc"))
    ELSE IF ~is_string(j[2]["jsonrpc"]) THEN ThrowJson(json_type_must_be("string", j[2]["jsonrpc"]))
    ELSE IF ~contains(j, "method") THEN ThrowJson(json_key_not_found("method"))
    ELSE IF ~is_string(j[2]["method"]) THEN ThrowJson(json_type_must_be("string", j[2]["method"]))
    ELSE LET params == IF contains(j, "params") THEN j[2]["params"] ELSE discarded
             id == IF contains(j, "id") THEN j[2]["id"] ELSE discarded
         IN  Value([jsonrpc |-> j[2]["jsonrpc"][2],
                    method |-> j[2]["method"][2],
                    params |-> IF is_discarded(params) THEN Arr(<<>>) ELSE params,
                    id |-> id])

\* from_json(const json&, jsonrpc_request&)
from_json(j) ==
    IF ~is_object(j) THEN ThrowJson(json_cannot_use_at(j))
    ELSE IF ~contains(j, "jsonrpc") THEN ThrowJson(json_key_not_found("jsonrpc"))
    ELSE IF ~is_string(j[2]["jsonrpc"]) THEN ThrowJson(json_type_must_be("string", j[2]["jsonrpc"]))
    ELSE IF ~contains(j, "method") THEN ThrowJson(json_key_not_found("method"))
    ELSE IF ~is_string(j[2]["method"]) THEN ThrowJson(json_type_must_be("string", j[2]["method"]))
    ELSE LET params == IF contains(j, "params") THEN j[2]["params"] ELSE discarded
             id == IF contains(j, "id") THEN j[2]["id"] ELSE discarded
         IN  Value([jsonrpc |-> j[2]["jsonrpc"][2],
                    method |-> j[2]["method"][2],
                    params |-> IF is_discarded(params) THEN Arr(<<>>)
                               ELSE IF is_object(params) THEN Arr(<<params>>)
                               ELSE params,
                    id |-> id])

\* dispatcher_private::parse_request: the request and its extra fields
parse_request(req) ==
    LET r == from_json(req)
    IN  IF r.ok
        THEN Value([req |-> r.value,
                    extra |-> erase(erase(erase(erase(req, "jsonrpc"), "method"), "params"), "id")])
        ELSE ThrowRpc(exception(INVALID_REQUEST, r.what, null))

\* validate_request testing the method before the version and the params
validate_request_method_first(r) ==
    IF r.method = ""
    THEN ThrowRpc(exception(INVALID_REQUEST, err_empty_method, null))
    ELSE IF r.jsonrpc # "2.0"
    THEN ThrowRpc(exception(INVALID_REQUEST, err_not_jsonrpc_2_0_request, null))
    ELSE IF ~is_array(r.params)
    THEN ThrowRpc(exception(INVALID_PARAMS, err_bad_params_type, null))
    ELSE IF ~is_valid_request_id(r.id)
    THEN ThrowRpc(exception(INVALID_REQUEST, err_bad_id_type, null))
    ELSE Value(TRUE)

\* validate_request accepting params of any shape
validate_request_any_params(r) ==
    IF r.jsonrpc # "2.0"
    THEN ThrowRpc(exception(INVALID_REQUEST, err_not_jsonrpc_2_0_request, null))
    ELSE IF r.method = ""
    THEN ThrowRpc(exception(INVALID_REQUEST, err_empty_method, null))
    ELSE IF ~is_valid_request_id(r.id)
    THEN ThrowRpc(exception(INVALID_REQUEST, err_bad_id_type, null))
    ELSE Value(TRUE)

\* dispatcher_private::validate_request
validate_request(r) ==
    IF r.jsonrpc # "2.0"
    THEN ThrowRpc(exception(INVALID_REQUEST, err_not_jsonrpc_2_0_request, null))
    ELSE IF ~is_array(r.params)
    THEN ThrowRpc(exception(INVALID_PARAMS, err_bad_params_type, null))
    ELSE IF r.method = ""
    THEN ThrowRpc(exception(INVALID_REQUEST, err_empty_method, null))
    ELSE IF ~is_valid_request_id(r.id)
    THEN ThrowRpc(exception(INVALID_REQUEST, err_bad_id_type, null))
    ELSE Value(TRUE)

\* private_invoke reporting an unknown method as an invalid request
private_invoke_invalid_request(methods, method, params, extra_data) ==
    IF method \in DOMAIN methods
    THEN {[out |-> c.out,
           hooks |-> IF c.out.ok
                     THEN <<on_method(method), on_request_processed(method, 0)>>
                     ELSE <<on_method(method)>>,
           calls |-> c.calls]
          : c \in create_closure(methods[method], extra_data, params)}
    ELSE {[out |-> ThrowRpc(exception(INVALID_REQUEST, err_method_not_found, null)),
           hooks |-> <<>>, calls |-> <<>>]}

\* private_invoke reporting success before the handler has run
private_invoke_early_processed(methods, method, params, extra_data) ==
    IF method \in DOMAIN methods
    THEN {[out |-> c.out,
           hooks |-> <<on_method(method), on_request_processed(method, 0)>>
                     \o [k \in 1..Len(c.calls) |-> handler_called(c.calls[k][1])],
           calls |-> c.calls]
          : c \in create_closure(methods[method], extra_data, params)}
    ELSE {[out |-> ThrowRpc(exception(METHOD_NOT_FOUND, err_method_not_found, null)),
           hooks |-> <<>>, calls |-> <<>>]}

\* private_invoke firing on_method after the handler
private_invoke_method_after_handler(methods, method, params, extra_data) ==
    IF method \in DOMAIN methods
    THEN {[out |-> c.out,
           hooks |-> [k \in 1..Len(c.calls) |-> handler_called(c.calls[k][1])]
                     \o <<on_method(method)>>
                     \o (IF c.out.ok THEN <<on_request_processed(method, 0)>> ELSE <<>>),
           calls |-> c.calls]
          : c \in create_closure(methods[method], extra_data, params)}
    ELSE {[out |-> ThrowRpc(exception(METHOD_NOT_FOUND, err_method_not_found, null)),
           hooks |-> <<>>, calls |-> <<>>]}

\* private_invoke firing on_method only once the arguments are bound
private_invoke_method_after_binding(methods, method, params, extra_data) ==
    IF method \in DOMAIN methods
    THEN {[out |-> c.out,
           hooks |-> (IF c.calls # <<>> THEN <<on_method(method)>> ELSE <<>>)
                     \o [k \in 1..Len(c.calls) |-> handler_called(c.calls[k][1])]
                     \o (IF c.out.ok THEN <<on_request_processed(method, 0)>> ELSE <<>>),
           calls |-> c.calls]
          : c \in create_closure(methods[method], extra_data, params)}
    ELSE {[out |-> ThrowRpc(exception(METHOD_NOT_FOUND, err_method_not_found, null)),
           hooks |-> <<>>, calls |-> <<>>]}

\* dispatcher_private::invoke: the possible outcomes, with the hooks fired
private_invoke(methods, method, params, extra_data) ==
    IF method \in DOMAIN methods
    THEN {[out |-> c.out,
           hooks |-> <<on_method(method)>>
                     \o [k \in 1..Len(c.calls) |-> handler_called(c.calls[k][1])]
                     \o (IF c.out.ok THEN <<on_request_processed(method, 0)>> ELSE <<>>),
           calls |-> c.calls]
          : c \in create_closure(methods[method], extra_data, params)}
    ELSE {[out |-> ThrowRpc(exception(METHOD_NOT_FOUND, err_method_not_found, null)),
           hooks |-> <<>>, calls |-> <<>>]}

\* private_catch without the test for a notification: the error of a request
\* without id is reported with id null
private_catch_always_responds(thrown, method, request_id, hk, cl) ==
    LET e == IF thrown.kind = "rpc" THEN thrown.e
             ELSE exception(INTERNAL_ERROR, thrown.what, null)
    IN  Out(generate_error_response(e, IF is_discarded(request_id) THEN null ELSE request_id),
            hk \o <<on_request_processed(method, e.code)>>, cl, 0)

\* private_catch answering every failure with id null
private_catch_null_id(thrown, method, request_id, hk, cl) ==
    LET e == IF thrown.kind = "rpc" THEN thrown.e
             ELSE exception(INTERNAL_ERROR, thrown.what, null)
    IN  Out(IF is_discarded(request_id) THEN discarded
            ELSE generate_error_response(e, null),
            hk \o <<on_request_processed(method, e.code)>>, cl, 0)

\* private_catch with a fixed text for the exceptions that are not typed
private_catch_generic_message(thrown, method, request_id, hk, cl) ==
    LET e == IF thrown.kind = "rpc" THEN thrown.e
             ELSE exception(INTERNAL_ERROR, "Internal error", null)
    IN  Out(IF is_discarded(request_id) THEN discarded
            ELSE generate_error_response(e, request_id),
            hk \o <<on_request_processed(method, e.code)>>, cl, 0)

\* private_catch telling on_request_processed INTERNAL_ERROR for every failure
private_catch_reports_internal_error(thrown, method, request_id, hk, cl) ==
    LET e == IF thrown.kind = "rpc" THEN thrown.e
             ELSE exception(INTERNAL_ERROR, thrown.what, null)
    IN  Out(IF is_discarded(request_id) THEN discarded
            ELSE generate_error_response(e, request_id),
            hk \o <<on_request_processed(method, INTERNAL_ERROR)>>, cl, 0)

\* private_catch telling on_request_processed no method name
private_catch_forgets_method(thrown, method, request_id, hk, cl) ==
    LET e == IF thrown.kind = "rpc" THEN thrown.e
             ELSE exception(INTERNAL_ERROR, thrown.what, null)
    IN  Out(IF is_discarded(request_id) THEN discarded
            ELSE generate_error_response(e, request_id),
            hk \o <<on_request_processed("", e.code)>>, cl, 0)

\* The catch clauses of dispatcher_private::process_request
private_catch(thrown, method, request_id, hk, cl) ==
    LET e == IF thrown.kind = "rpc" THEN thrown.e
             ELSE exception(INTERNAL_ERROR, thrown.what, null)
    IN  Out(IF is_discarded(request_id) THEN discarded
            ELSE generate_error_response(e, request_id),
            hk \o <<on_request_processed(method, e.code)>>, cl, 0)

\* One element of the loop of process_batch_request added to what the loop
\* has produced so far
batch_append(acc, step) ==
    Out(IF is_discarded(step.response) THEN acc.response
        ELSE Append(acc.response, step.response),
        acc.hooks \o step.hooks, acc.calls \o step.calls, acc.batches + step.batches)

\* batch_result without the test for an empty array
batch_result_keeps_empty(acc) ==
    [acc EXCEPT !.response = Arr(acc.response)]

\* The value process_batch_request returns after its loop
batch_result(acc) ==
    [acc EXCEPT !.response = IF acc.response = <<>> THEN discarded ELSE Arr(acc.response)]

\* The host object with every member of the request's extra fields added,
\* not the one key extra
extra_fields_inlined(extra_data, extra_fields) ==
    IF is_object(extra_data) /\ ~empty(extra_fields)
    THEN Obj([k \in DOMAIN extra_data[2] \cup DOMAIN extra_fields[2] |->
                IF k \in DOMAIN extra_fields[2] THEN extra_fields[2][k] ELSE extra_data[2][k]])
    ELSE extra_data

\* merge_extra_fields setting the key extra of a host object whether or not
\* the request has extra fields
merge_extra_fields_even_if_empty(extra_data, extra_fields) ==
    IF is_object(extra_data)
    THEN set_member(extra_data, "extra", extra_fields)
    ELSE extra_data

\* extra_data in dispatcher_private::process_request: the host data, with the
\* request's extra fields under the key extra if it is an object and there
\* are any
merge_extra_fields(extra_data, extra_fields) ==
    IF is_object(extra_data) /\ ~empty(extra_fields)
    THEN set_member(extra_data, "extra", extra_fields)
    ELSE extra_data

\* hook_extras handing the host data to every hook
hook_extras_host_data_only(req, extra_data, hk) == [i \in 1..Len(hk) |-> extra_data]

\* The extra argument of on_request(extra), on_method(method, extra) and
\* on_request_processed(method, code, extra) for the hook calls hk of a call
\* of process_request(req, extra_data), entry by entry (the entry of a
\* handler event is the context of that request).  on_request is handed the
\* host data; the hooks after it are handed the host data with the extra
\* fields of their request once the request has been parsed, and the host
\* data if it could not be parsed.  The k-th on_request of a batch is fired
\* for its k-th element.
hook_extras(req, extra_data, hk) ==
    [i \in 1..Len(hk) |->
        LET k == Cardinality({j \in 1..i : hk[j] = on_request})
            elem == IF is_array(req) /\ k \in 1..Len(req[2]) THEN req[2][k] ELSE req
        IN  IF hk[i] = on_request \/ ~is_object(elem) THEN extra_data
            ELSE LET parsed == parse_request(elem)
                 IN  IF parsed.ok THEN merge_extra_fields(extra_data, parsed.value.extra)
                     ELSE extra_data]

RECURSIVE private_process_request(_, _, _)
RECURSIVE private_batch_loop(_, _, _, _, _)

\* private_process_batch_request firing on_request for the batch as well
private_process_batch_request_announces_batch(methods, req, extra_data) ==
    IF empty(req)
    THEN {Out(generate_error_response(exception(INVALID_REQUEST, err_empty_batch, null), null),
              <<on_request, on_request_processed("", INVALID_REQUEST)>>, <<>>, 1)}
    ELSE {batch_result(acc)
          : acc \in private_batch_loop(methods, req, extra_data, 1,
                                       {Out(<<>>, <<on_request>>, <<>>, 1)})}

\* dispatcher_private::process_batch_request
private_process_batch_request(methods, req, extra_data) ==
    IF empty(req)
    THEN {Out(generate_error_response(exception(INVALID_REQUEST, err_empty_batch, null), null),
              <<on_request, on_request_processed("", INVALID_REQUEST)>>, <<>>, 1)}
    ELSE {batch_result(acc)
          : acc \in private_batch_loop(methods, req, extra_data, 1, {Out(<<>>, <<>>, <<>>, 1)})}

\* private_batch_loop leaving the loop at the first element that fails
private_batch_loop_stops_at_error(methods, req, extra_data, i, accs) ==
    IF i > Len(req[2]) THEN accs
    ELSE LET r == req[2][i]
             steps ==
                IF ~is_object(r)
                THEN {Out(generate_error_response(
                              exception(INVALID_REQUEST, err_not_jsonrpc_2_0_request, null), null),
                          <<on_request, on_request_processed("", INVALID_REQUEST)>>, <<>>, 0)}
                ELSE private_process_request(methods, r, extra_data)
             failed(step) == step.hooks[Len(step.hooks)][3] # 0
         IN  UNION {IF failed(step) THEN {batch_append(acc, step)}
                    ELSE private_batch_loop(methods, req, extra_data, i + 1,
                                            {batch_append(acc, step)})
                    : acc \in accs, step \in steps}

\* private_batch_loop handing every element that is not a plain value to
\* process_request, arrays included
private_batch_loop_recurses(methods, req, extra_data, i, accs) ==
    IF i > Len(req[2]) THEN accs
    ELSE LET r == req[2][i]
             steps ==
                IF ~is_object(r) /\ ~is_array(r)
                THEN {Out(generate_error_response(
                              exception(INVALID_REQUEST, err_not_jsonrpc_2_0_request, null), null),
                          <<on_request, on_request_processed("", INVALID_REQUEST)>>, <<>>, 0)}
                ELSE private_process_request(methods, r, extra_data)
         IN  private_batch_loop(methods, req, extra_data, i + 1,
                                {batch_append(acc, step) : acc \in accs, step \in steps})

\* private_batch_loop handing each element the context the element before it
\* was given
private_batch_loop_carries_extra(methods, req, extra_data, i, accs) ==
    IF i > Len(req[2]) THEN accs
    ELSE LET r == req[2][i]
             steps ==
                IF ~is_object(r)
                THEN {Out(generate_error_response(
                              exception(INVALID_REQUEST, err_not_jsonrpc_2_0_request, null), null),
                          <<on_request, on_request_processed("", INVALID_REQUEST)>>, <<>>, 0)}
                ELSE private_process_request(methods, r, extra_data)
             carried == IF is_object(r) /\ parse_request(r).ok
                        THEN merge_extra_fields(extra_data, parse_request(r).value.extra)
                        ELSE extra_data
         IN  private_batch_loop(methods, req, carried, i + 1,
                                {batch_append(acc, step) : acc \in accs, step \in steps})

\* The loop of process_batch_request from element i on; accs are the possible
\* results of the elements before i
private_batch_loop(methods, req, extra_data, i, accs) ==
    IF i > Len(req[2]) THEN accs
    ELSE LET r == req[2][i]
             steps ==
                IF ~is_object(r)
                THEN {Out(generate_error_response(
                              exception(INVALID_REQUEST, err_not_jsonrpc_2_0_request, null), null),
                          <<on_request, on_request_processed("", INVALID_REQUEST)>>, <<>>, 0)}
                ELSE private_process_request(methods, r, extra_data)
         IN  private_batch_loop(methods, req, extra_data, i + 1,
                                {batch_append(acc, step) : acc \in accs, step \in steps})

\* dispatcher_private::process_request
private_process_request(methods, req, extra_data) ==
    IF is_array(req) THEN private_process_batch_request(methods, req, extra_data)
    ELSE
    LET id0 == IF contains(req, "id") THEN req[2]["id"] ELSE null
        request_id == IF is_valid_request_id(id0) THEN id0 ELSE null
        parsed == parse_request(req)
    IN  IF ~parsed.ok
        THEN {private_catch(parsed, "", request_id, <<on_request>>, <<>>)}
        ELSE
        LET r == parsed.value.req
            extra_fields == parsed.value.extra
            valid == validate_request(r)
        IN  IF ~valid.ok
            THEN {private_catch(valid, "", request_id, <<on_request>>, <<>>)}
            ELSE
            LET data == merge_extra_fields(extra_data, extra_fields)
            IN  {IF inv.out.ok
                 THEN Out(IF ~is_discarded(r.id)
                          THEN result_response(inv.out.value, r.id)
                          ELSE discarded,
                          <<on_request>> \o inv.hooks, inv.calls, 0)
                 ELSE private_catch(inv.out, r.method, r.id, <<on_request>> \o inv.hooks, inv.calls)
                 : inv \in private_invoke(methods, r.method, r.params, data)}

-----------------------------------------------------------------------------
(* dispatcher.cpp, request.cpp: dispatcher *)

\* request.cpp: from_json(const json&, jsonrpc_request&)
request_get_to(j) ==
    IF ~is_object(j) THEN ThrowJson(json_cannot_use_at(j))
    ELSE IF ~contains(j, "jsonrpc") THEN ThrowJson(json_key_not_found("jsonrpc"))
    ELSE IF ~is_string(j[2]["jsonrpc"]) THEN ThrowJson(json_type_must_be("string", j[2]["jsonrpc"]))
    ELSE IF ~contains(j, "method") THEN ThrowJson(json_key_not_found("method"))
    ELSE IF ~is_string(j[2]["method"]) THEN ThrowJson(json_type_must_be("string", j[2]["method"]))
    ELSE LET params == IF contains(j, "params") THEN j[2]["params"] ELSE discarded
             id == IF contains(j, "id") THEN j[2]["id"] ELSE discarded
         IN  Value([jsonrpc |-> j[2]["jsonrpc"][2],
                    method |-> j[2]["method"][2],
                    params |-> IF is_discarded(params) THEN Arr(<<>>)
                               ELSE IF is_object(params) THEN Arr(<<params>>)
                               ELSE params,
                    id |-> id])

\* jsonrpc_request::from_json: parsing, validation and the extra fields
jsonrpc_request_from_json(req) ==
    LET got == request_get_to(req)
    IN  IF ~got.ok THEN ThrowRpc(exception(INVALID_REQUEST, got.what, null))
        ELSE LET r == got.value
             IN  IF r.jsonrpc # "2.0"
                 THEN ThrowRpc(exception(INVALID_REQUEST, err_not_jsonrpc_2_0_request, null))
                 ELSE IF ~is_array(r.params)
                 THEN ThrowRpc(exception(INVALID_PARAMS, err_bad_params_type, null))
                 ELSE IF r.method = ""
                 THEN ThrowRpc(exception(INVALID_REQUEST, err_empty_method, null))
                 ELSE IF ~is_valid_request_id(r.id)
                 THEN ThrowRpc(exception(INVALID_REQUEST, err_bad_id_type, null))
                 ELSE Value([jsonrpc |-> r.jsonrpc, method |-> r.method,
                             params |-> r.params, id |-> r.id,
                             extra |-> erase(erase(erase(erase(req, "jsonrpc"), "method"),
                                                   "params"), "id")])

\* dispatcher_private::find_handler of this revision: the handler registered
\* for the name, or nothing
find_handler(methods, method) ==
    IF method \in DOMAIN methods THEN {methods[method]} ELSE {}

\* method_not_found_exception
method_not_found_exception == exception(METHOD_NOT_FOUND, err_method_not_found, null)

\* dispatcher::invoke
invoke(methods, method, params, ctx) ==
    IF find_handler(methods, method) # {}
    THEN UNION {create_closure(h, ctx[1], params) : h \in find_handler(methods, method)}
    ELSE {[out |-> ThrowRpc(method_not_found_exception), calls |-> <<>>]}

\* The catch clause answering with the error whether the request has an id
\* or not
do_catch_always_responds(thrown, request_id, is_discarded_id, cl) ==
    LET ex == IF thrown.kind = "rpc" THEN thrown.e
              ELSE exception(INTERNAL_ERROR, thrown.what, null)
    IN  Out(generate_error_response(ex, request_id),
            <<request_failed(request_id, ex.code, FALSE)>>, cl, 0)

\* The catch clause of dispatcher::do_process_request
do_catch(thrown, request_id, is_discarded_id, cl) ==
    LET ex == IF thrown.kind = "rpc" THEN thrown.e
              ELSE exception(INTERNAL_ERROR, thrown.what, null)
    IN  Out(IF is_discarded_id THEN discarded ELSE generate_error_response(ex, request_id),
            <<request_failed(request_id, ex.code, FALSE)>>, cl, 0)

\* dispatcher::do_process_request
do_process_request(methods, req, data) ==
    LET request_id == get_request_id(req)
        parsed == jsonrpc_request_from_json(req)
    IN  IF ~parsed.ok
        THEN {do_catch(parsed, request_id, FALSE, <<>>)}
        ELSE LET r == parsed.value
                 ctx == <<data, r.extra>>
             IN  {IF inv.out.ok
                  THEN Out(IF ~is_null(request_id)
                           THEN result_response(inv.out.value, r.id)
                           ELSE discarded,
                           <<>>, inv.calls, 0)
                  ELSE do_catch(inv.out, request_id, is_discarded(r.id), inv.calls)
                  : inv \in invoke(methods, r.method, r.params, ctx)}

RECURSIVE batch_loop(_, _, _, _, _)

\* batch_loop passing over the elements that are not objects
batch_loop_skips_non_objects(methods, req, data, i, accs) ==
    IF i > Len(req[2]) THEN accs
    ELSE LET r == req[2][i]
             steps ==
                IF ~is_object(r)
                THEN {Out(discarded, <<request_failed(null, INVALID_REQUEST, FALSE)>>, <<>>, 0)}
                ELSE do_process_request(methods, r, data)
         IN  batch_loop(methods, req, data, i + 1,
                        {batch_append(acc, step) : acc \in accs, step \in steps})

\* The loop of dispatcher::process_batch_request from element i on
batch_loop(methods, req, data, i, accs) ==
    IF i > Len(req[2]) THEN accs
    ELSE LET r == req[2][i]
             steps ==
                IF ~is_object(r)
                THEN {Out(generate_error_response(
                              exception(INVALID_REQUEST, err_not_jsonrpc_2_0_request, null), null),
                          <<request_failed(null, INVALID_REQUEST, FALSE)>>, <<>>, 0)}
                ELSE do_process_request(methods, r, data)
         IN  batch_loop(methods, req, data, i + 1,
                        {batch_append(acc, step) : acc \in accs, step \in steps})

\* process_batch_request without the test for an empty batch
process_batch_request_no_empty_check(methods, req, data) ==
    {batch_result(acc) : acc \in batch_loop(methods, req, data, 1, {Out(<<>>, <<>>, <<>>, 1)})}

\* dispatcher::process_batch_request
process_batch_request(methods, req, data) ==
    IF empty(req)
    THEN {Out(generate_error_response(exception(INVALID_REQUEST, err_empty_batch, null), null),
              <<request_failed(null, INVALID_REQUEST, TRUE)>>, <<>>, 1)}
    ELSE {batch_result(acc) : acc \in batch_loop(methods, req, data, 1, {Out(<<>>, <<>>, <<>>, 1)})}

\* dispatcher::process_request
process_request(methods, req, data) ==
    IF is_array(req) THEN process_batch_request(methods, req, data)
    ELSE do_process_request(methods, req, data)

-----------------------------------------------------------------------------
(* The inputs of the model *)

MaxBatch == 2

\* A member a request object does not have
absent == <<"absent">>

\* The request object with the given members; absent members are left out
\* and the members of extras (an object) are added.
MkRequest(jsonrpc, method, params, id, extras) ==
    LET std == [k \in {"jsonrpc", "method", "params", "id"} |->
                    CASE k = "jsonrpc" -> jsonrpc [] k = "method" -> method
                      [] k = "params" -> params [] k = "id" -> id]
        keys == {k \in DOMAIN std : std[k] # absent}
    IN  Obj([k \in keys \cup DOMAIN extras[2] |->
                IF k \in keys THEN std[k] ELSE extras[2][k]])

MethodNames == {"m1", "m2"}

JsonrpcMembers == {absent, Str("2.0"), Str("1.0"), Num(2)}
MethodMembers == {absent, Str(""), Str("m1"), Str("m2"), Num(1)}
ParamsMembers == {absent, Arr(<<>>), Arr(<<Num(5)>>), Arr(<<Num(3), Num(2)>>),
                  Arr(<<Num(1), Num(2), Num(4)>>), Arr(<<Str("a"), Str("b")>>),
                  Obj([minuend |-> Num(42), subtrahend |-> Num(23)]), Num(1),
                  Str("bar"), Bool(FALSE), null}
IdMembers == {absent, null, Num(3), Str("1"), Bool(TRUE)}
ExtraMembers == Obj([auth |-> Str("secret")])
UserMembers == Obj([user |-> Str("admin")])
SpoofMembers == Obj([ip |-> Str("10.0.0.1"), extra |-> Str("spoofed")])

\* Single inputs: every combination of the four reserved members, the
\* well-versioned ones also with members outside the reserved four (some
\* named like the keys of the host data), and inputs that are neither arrays
\* nor objects.
SingleRequests ==
    {MkRequest(j, m, p, i, EmptyObject)
        : j \in JsonrpcMembers, m \in MethodMembers, p \in ParamsMembers, i \in IdMembers}
    \cup {MkRequest(Str("2.0"), m, p, i, ExtraMembers)
        : m \in {Str(""), Str("m1")}, p \in ParamsMembers, i \in IdMembers}
    \cup {MkRequest(Str("2.0"), Str("m1"), p, Num(3), SpoofMembers)
        : p \in {absent, Arr(<<Num(3), Num(2)>>)}}
    \cup {null, Num(1), Str("x"), Bool(FALSE)}

\* The elements batches are made of: requests with an id, notifications,
\* malformed objects, values that are not objects, and arrays.
BatchElements ==
    {MkRequest(Str("2.0"), Str("m1"), absent, Num(3), ExtraMembers),
     MkRequest(Str("2.0"), Str("m1"), absent, absent, EmptyObject),
     MkRequest(Str("2.0"), Str("m1"), absent, null, UserMembers),
     MkRequest(Str("2.0"), Str("m2"), Arr(<<Num(3), Num(2)>>), Str("1"), UserMembers),
     MkRequest(Str("2.0"), Str("m2"), Arr(<<Num(3), Num(2)>>), absent, EmptyObject),
     MkRequest(Str("1.0"), Str("m1"), absent, absent, EmptyObject),
     MkRequest(absent, absent, absent, Str("1"), ExtraMembers),
     Num(1),
     Arr(<<>>),
     Arr(<<MkRequest(Str("2.0"), Str("m1"), absent, Num(3), EmptyObject)>>)}

RECURSIVE SeqsUpTo(_, _)
SeqsUpTo(S, n) ==
    IF n = 0 THEN {<<>>}
    ELSE LET shorter == SeqsUpTo(S, n - 1)
         IN  shorter \cup {Append(s, e) : s \in {t \in shorter : Len(t) = n - 1}, e \in S}

BatchRequests == {Arr(s) : s \in SeqsUpTo(BatchElements, MaxBatch)}

Requests == SingleRequests \cup BatchRequests

HostData == {Obj([ip |-> Str("127.0.0.1")]), null}

\* The host data tried with a request: a single request is also processed
\* with host data that has a key named extra of its own
HostDataFor(req) ==
    IF is_array(req) THEN HostData
    ELSE HostData \cup {Obj([ip |-> Str("127.0.0.1"), extra |-> Str("host")])}

-----------------------------------------------------------------------------
(* Texts: nlohmann::json::parse, json::dump, parse_and_process_request *)

\* A text is a sequence of tokens: the six structural characters, the scalar
\* values, and Bad for anything that is not the beginning of a JSON token
\* (an unterminated string, a bare word).
LBrace == <<"{">>
RBrace == <<"}">>
LBracket == <<"[">>
RBracket == <<"]">>
Comma == <<",">>
Colon == <<":">>
Bad == <<"bad">>

is_scalar_token(t) == t[1] \in {"null", "boolean", "number", "string"}

\* The keys of the objects of the model in the order of std::map<std::string>
KeyOrder == <<"auth", "code", "data", "error", "extra", "id", "ip", "jsonrpc", "message",
              "method", "minuend", "params", "result", "subtrahend", "user">>

RECURSIVE dump(_)
RECURSIVE dump_elements(_, _)
RECURSIVE dump_members(_, _)

\* The elements of an array from the k-th on, separated by commas
dump_elements(elems, k) ==
    IF k > Len(elems) THEN <<>>
    ELSE (IF k > 1 THEN <<Comma>> ELSE <<>>) \o dump(elems[k]) \o dump_elements(elems, k + 1)

\* The members of an object with the given keys, separated by commas
dump_members(obj, keys) ==
    IF keys = <<>> THEN <<>>
    ELSE <<Str(Head(keys)), Colon>> \o dump(obj[Head(keys)])
         \o (IF Len(keys) > 1 THEN <<Comma>> ELSE <<>>) \o dump_members(obj, Tail(keys))

\* json::dump()
dump(j) ==
    IF is_array(j) THEN <<LBracket>> \o dump_elements(j[2], 1) \o <<RBracket>>
    ELSE IF is_object(j)
    THEN <<LBrace>>
         \o dump_members(j[2], SelectSeq(KeyOrder, LAMBDA k : k \in DOMAIN j[2]))
         \o <<RBrace>>
    ELSE <<j>>

\* serialize_repsonse giving no text for null either
serialize_repsonse_null_is_silent(resp) ==
    IF is_discarded(resp) \/ is_null(resp) THEN <<>> ELSE dump(resp)

\* serialize_repsonse: no text for the discarded value
serialize_repsonse(resp) == IF is_discarded(resp) THEN <<>> ELSE dump(resp)

\* The parser's result: the value read and the tokens after it
Read(v, rest) == [ok |-> TRUE, value |-> v, rest |-> rest]
SyntaxError == [ok |-> FALSE, value |-> discarded, rest |-> <<>>]

RECURSIVE parse_value(_)
RECURSIVE parse_elements(_, _)
RECURSIVE parse_members(_, _)

\* The rest of an array after "[" or ",": a value, then "," or "]"
parse_elements(t, acc) ==
    LET v == parse_value(t)
    IN  IF ~v.ok \/ v.rest = <<>> THEN SyntaxError
        ELSE IF Head(v.rest) = Comma THEN parse_elements(Tail(v.rest), Append(acc, v.value))
        ELSE IF Head(v.rest) = RBracket THEN Read(Arr(Append(acc, v.value)), Tail(v.rest))
        ELSE SyntaxError

\* The rest of an object after "{" or ",": a key, ":", a value, then "," or "}"
parse_members(t, acc) ==
    IF Len(t) < 2 \/ ~is_string(t[1]) \/ t[2] # Colon THEN SyntaxError
    ELSE LET v == parse_value(SubSeq(t, 3, Len(t)))
         IN  IF ~v.ok \/ v.rest = <<>> THEN SyntaxError
             ELSE IF Head(v.rest) = Comma
             THEN parse_members(Tail(v.rest), set_member(acc, t[1][2], v.value))
             ELSE IF Head(v.rest) = RBrace
             THEN Read(set_member(acc, t[1][2], v.value), Tail(v.rest))
             ELSE SyntaxError

\* One JSON value at the beginning of the tokens
parse_value(t) ==
    IF t = <<>> THEN SyntaxError
    ELSE IF is_scalar_token(Head(t)) THEN Read(Head(t), Tail(t))
    ELSE IF Head(t) = LBracket
    THEN IF Len(t) >= 2 /\ t[2] = RBracket THEN Read(Arr(<<>>), SubSeq(t, 3, Len(t)))
         ELSE parse_elements(Tail(t), <<>>)
    ELSE IF Head(t) = LBrace
    THEN IF Len(t) >= 2 /\ t[2] = RBrace THEN Read(EmptyObject, SubSeq(t, 3, Len(t)))
         ELSE parse_members(Tail(t), EmptyObject)
    ELSE SyntaxError

\* The text of parse_error.101, without the position and the cause
err_parse_error == "[json.exception.parse_error.101] parse error"

\* nlohmann::json::parse: the whole text must be one value
parse(text) ==
    LET v == parse_value(text)
    IN  IF v.ok /\ v.rest = <<>> THEN Value(v.value) ELSE ThrowJson(err_parse_error)

\* parse_and_process_request answering a text that is not JSON as it answers
\* a request that is not valid
parse_failure_invalid_request(e) ==
    Out(generate_error_response(exception(INVALID_REQUEST, e.what, null), null),
        <<on_request, on_request_processed("", INVALID_REQUEST)>>, <<>>, 0)

\* parse_and_process_request when parse has thrown: the PARSE_ERROR response
\* with id null; on_request and on_request_processed are called once
parse_failure(e) ==
    Out(generate_error_response(exception(PARSE_ERROR, e.what, null), null),
        <<on_request, on_request_processed("", PARSE_ERROR)>>, <<>>, 0)

\* dispatcher::parse_and_process_request: the text parsed, the value given to
\* process_request, the response serialized
parse_and_process_request(methods, text, extra_data) ==
    LET parsed == parse(text)
        outs == IF parsed.ok THEN private_process_request(methods, parsed.value, extra_data)
                ELSE {parse_failure(parsed)}
    IN  {[o EXCEPT !.response = serialize_repsonse(o.response)] : o \in outs}

\* The tokens of {"jsonrpc": "2.0", "method": "foobar, "params": "bar", "baz]
InvalidJsonText ==
    <<LBrace, Str("jsonrpc"), Colon, Str("2.0"), Comma, Str("method"), Colon, Bad>>

\* A batch cut off in its second element, after a first one that is valid
CutOffBatchText ==
    <<LBracket>>
    \o dump(MkRequest(Str("2.0"), Str("m1"), absent, Str("1"), EmptyObject))
    \o <<Comma, LBrace, Str("jsonrpc"), Colon, Str("2.0"), Comma, Str("method"), RBracket>>

\* Texts that are JSON: the batch elements as single requests, batches of
\* them, the empty array, a number
WellFormedTexts ==
    {dump(r) : r \in BatchElements}
    \cup {dump(Arr(<<r, r>>)) : r \in BatchElements}

\* Texts that are not: the empty text, an invalid token, a batch cut off, an
\* object and an array that are not closed, tokens after the value
MalformedTexts ==
    {<<>>, InvalidJsonText, CutOffBatchText,
     <<LBrace>>, <<LBracket, Num(1), Comma>>,
     dump(MkRequest(Str("2.0"), Str("m1"), absent, Num(3), EmptyObject)) \o <<RBrace>>}

Texts == WellFormedTexts \cup MalformedTexts

-----------------------------------------------------------------------------
(* The state machine *)

NoMethods == [k \in {} |-> no_params]

Init ==
    /\ m_methods = NoMethods
    /\ pc = "idle"
    /\ impl = "none"
    /\ request = null
    /\ extra = null
    /\ response = discarded
    /\ hooks = <<>>
    /\ hook_extra = <<>>
    /\ calls = <<>>
    /\ batches = 0
    /\ last_add = <<>>
    /\ build = "any"

\* try_emplace replaced by an insertion that overwrites
insert_or_assign(methods, method, handler) ==
    [k \in DOMAIN methods \cup {method} |-> IF k = method THEN handler ELSE methods[k]]

\* dispatcher_private::add_handler (try_emplace: an existing name is kept)
try_emplace(methods, method, handler) ==
    IF method \in DOMAIN methods THEN methods
    ELSE [k \in DOMAIN methods \cup {method} |-> IF k = method THEN handler ELSE methods[k]]

add_handler(method, handler) ==
    /\ pc = "idle"
    /\ m_methods' = try_emplace(m_methods, method, handler)
    /\ last_add' = <<[method |-> method, handler |-> handler, before |-> m_methods]>>
    /\ pc' = "added"
    /\ UNCHANGED <<impl, request, extra, response, hooks, hook_extra, calls, batches, build>>

\* Call looking the method up with operator[] of the map, which inserts a
\* name that is not registered
Call_inserting_method(which, req, data, out) ==
    /\ pc' = "returned"
    /\ impl' = which
    /\ request' = req
    /\ extra' = data
    /\ response' = out.response
    /\ hooks' = out.hooks
    /\ hook_extra' = IF which = "private" THEN hook_extras(req, data, out.hooks) ELSE <<>>
    /\ calls' = out.calls
    /\ batches' = out.batches
    /\ m_methods' = IF is_object(req) /\ contains(req, "method") /\ is_string(req[2]["method"])
                    THEN try_emplace(m_methods, req[2]["method"][2], no_params)
                    ELSE m_methods
    /\ UNCHANGED <<last_add, build>>

\* A call of process_request through entry point which, running to its return
Call(which, req, data, out) ==
    /\ pc' = "returned"
    /\ impl' = which
    /\ request' = req
    /\ extra' = data
    /\ response' = out.response
    /\ hooks' = out.hooks
    /\ hook_extra' = IF which = "private" THEN hook_extras(req, data, out.hooks) ELSE <<>>
    /\ calls' = out.calls
    /\ batches' = out.batches
    /\ UNCHANGED <<m_methods, last_add, build>>

PrivateProcessRequest ==
    /\ pc = "idle"
    /\ \E req \in Requests : \E data \in HostDataFor(req) :
        \E out \in private_process_request(m_methods, req, data) :
            Call("private", req, data, out)

DispatcherProcessRequest ==
    /\ pc = "idle"
    /\ \E req \in Requests : \E data \in HostDataFor(req) :
        \E out \in process_request(m_methods, req, data) :
            Call("dispatcher", req, data, out)

\* A call of parse_and_process_request, running to its return
ParseAndProcessRequest ==
    /\ pc = "idle"
    /\ \E text \in Texts, data \in HostData :
        \E out \in parse_and_process_request(m_methods, text, data) :
            /\ pc' = "text_returned"
            /\ impl' = "text"
            /\ request' = text
            /\ extra' = data
            /\ response' = out.response
            /\ hooks' = out.hooks
            /\ hook_extra' = <<>>
            /\ calls' = out.calls
            /\ batches' = out.batches
            /\ UNCHANGED <<m_methods, last_add, build>>

\* The host takes the response, or add_handler has returned; the dispatcher
\* is ready for the next call
Return ==
    /\ pc \in {"returned", "added", "text_returned"}
    /\ pc' = "idle"
    /\ impl' = "none"
    /\ request' = null
    /\ extra' = null
    /\ response' = discarded
    /\ hooks' = <<>>
    /\ hook_extra' = <<>>
    /\ calls' = <<>>
    /\ batches' = 0
    /\ last_add' = <<>>
    /\ UNCHANGED <<m_methods, build>>

Register == \E method \in MethodNames, handler \in Handlers : add_handler(method, handler)

Next ==
    \/ Register
    \/ PrivateProcessRequest
    \/ DispatcherProcessRequest
    \/ ParseAndProcessRequest
    \/ Return

Spec == Init /\ [][Next]_vars

-----------------------------------------------------------------------------
(* The functions a host may call on its own: exception::to_json and          *)
(* serialize_repsonse.  The input is chosen at the start and the function is *)
(* applied to it; request holds the input and response the result.           *)

ErrorCodes == {PARSE_ERROR, INVALID_REQUEST, METHOD_NOT_FOUND, INVALID_PARAMS,
               INTERNAL_ERROR, -1, 0}
ErrorMessages == {"Parse error", "failed", ""}
ErrorData == {null, Num(123), Num(0), Str(""), Bool(FALSE), EmptyObject, Arr(<<>>),
              Obj([code |-> Num(1)])}

\* The typed errors to_json is applied to; data null is also what the
\* constructor without data leaves
Exceptions == {exception(c, m, d) : c \in ErrorCodes, m \in ErrorMessages, d \in ErrorData}

\* The values serialize_repsonse is applied to: what process_request can
\* return, and values of every other type
ResponseValues ==
    {discarded, null, EmptyObject, Arr(<<>>), Str(""), Str("test"), Num(0), Bool(FALSE)}
    \cup {result_response(r, i) : r \in {null, Num(19), Arr(<<>>)}, i \in {null, Num(3), Str("1")}}
    \cup {generate_error_response(e, i)
            : e \in {exception(METHOD_NOT_FOUND, err_method_not_found, null),
                     exception(-1, "failed", Num(123))},
              i \in {null, Num(3)}}
    \cup {Arr(<<result_response(Num(19), Num(3)),
                generate_error_response(exception(INVALID_REQUEST, err_empty_method, null), null)>>)}

FunctionInit ==
    /\ m_methods = NoMethods
    /\ pc = "input"
    /\ \/ impl = "to_json" /\ request \in Exceptions
       \/ impl = "serialize_repsonse" /\ request \in ResponseValues
    /\ extra = null
    /\ response = discarded
    /\ hooks = <<>>
    /\ hook_extra = <<>>
    /\ calls = <<>>
    /\ batches = 0
    /\ last_add = <<>>
    /\ build = "any"

\* A call of exception::to_json on the error chosen
ToJson ==
    /\ pc = "input" /\ impl = "to_json"
    /\ response' = to_json(request)
    /\ pc' = "done"
    /\ UNCHANGED <<m_methods, impl, request, extra, hooks, hook_extra, calls, batches, last_add,
                   build>>

\* A call of serialize_repsonse on the value chosen
SerializeResponse ==
    /\ pc = "input" /\ impl = "serialize_repsonse"
    /\ response' = serialize_repsonse(request)
    /\ pc' = "done"
    /\ UNCHANGED <<m_methods, impl, request, extra, hooks, hook_extra, calls, batches, last_add,
                   build>>

FunctionNext == ToJson \/ SerializeResponse

FunctionSpec == FunctionInit /\ [][FunctionNext]_vars

-----------------------------------------------------------------------------
(* One build: the order of evaluation of the arguments of a call is the      *)
(* same in every call.  The dispatcher is driven with a handler of every     *)
(* shape, the well-versioned single requests, a request two of whose params  *)
(* fail to convert in different ways, and batches of a few elements.         *)

Builds == {"left_to_right", "right_to_left"}

BuildHandlers == {subtract_p, throwing, extra_json, extra_ip, extra_full}

BuildElements ==
    {MkRequest(Str("2.0"), Str("m1"), absent, Num(3), ExtraMembers),
     MkRequest(Str("2.0"), Str("m1"), Arr(<<Str("a"), Str("b")>>), Num(3), EmptyObject),
     MkRequest(Str("2.0"), Str("m2"), Arr(<<Num(3), Num(2)>>), Str("1"), UserMembers),
     MkRequest(Str("2.0"), Str("m2"), Arr(<<Num(3), Num(2)>>), absent, EmptyObject),
     Num(1)}

BuildRequests ==
    {r \in SingleRequests : is_object(r) /\ contains(r, "jsonrpc") /\ r[2]["jsonrpc"] = Str("2.0")}
    \cup {MkRequest(Str("2.0"), Str("m1"), Arr(<<Str("a"), null>>), Num(3), EmptyObject)}
    \cup {Arr(s) : s \in SeqsUpTo(BuildElements, MaxBatch)}

BuildInit ==
    /\ m_methods = NoMethods
    /\ pc = "idle"
    /\ impl = "none"
    /\ request = null
    /\ extra = null
    /\ response = discarded
    /\ hooks = <<>>
    /\ hook_extra = <<>>
    /\ calls = <<>>
    /\ batches = 0
    /\ last_add = <<>>
    /\ build \in Builds

BuildPrivateProcessRequest ==
    /\ pc = "idle"
    /\ \E req \in BuildRequests : \E data \in HostDataFor(req) :
        \E out \in private_process_request(m_methods, req, data) :
            Call("private", req, data, out)

BuildDispatcherProcessRequest ==
    /\ pc = "idle"
    /\ \E req \in BuildRequests : \E data \in HostDataFor(req) :
        \E out \in process_request(m_methods, req, data) :
            Call("dispatcher", req, data, out)

BuildRegister ==
    \E method \in MethodNames, handler \in BuildHandlers : add_handler(method, handler)

BuildNext ==
    \/ BuildRegister
    \/ BuildPrivateProcessRequest
    \/ BuildDispatcherProcessRequest
    \/ Return

BuildSpec == BuildInit /\ [][BuildNext]_vars

-----------------------------------------------------------------------------
(* Vocabulary of the properties *)

Returned == pc = "returned"

\* A request object that passes parsing and validation, stated on the input:
\* jsonrpc is "2.0", method is a non-empty string, params is absent, an array
\* or an object, and id is absent, a string, a number or null.
Valid(req) ==
    /\ is_object(req)
    /\ contains(req, "jsonrpc") /\ req[2]["jsonrpc"] = Str("2.0")
    /\ contains(req, "method") /\ is_string(req[2]["method"]) /\ req[2]["method"] # Str("")
    /\ contains(req, "params") => (is_array(req[2]["params"]) \/ is_object(req[2]["params"]))
    /\ contains(req, "id") =>
          (is_string(req[2]["id"]) \/ is_number(req[2]["id"]) \/ is_null(req[2]["id"]))

\* A notification: a valid request object without an id member
IsNotification(req) == Valid(req) /\ ~contains(req, "id")

IsResult(r) == is_object(r) /\ DOMAIN r[2] = {"jsonrpc", "result", "id"}
IsError(r) == is_object(r) /\ DOMAIN r[2] = {"jsonrpc", "error", "id"}

\* An error response with exactly this code, message and id, and no data
ErrorIs(r, code, message, id) ==
    r = Obj([jsonrpc |-> Str("2.0"),
             error |-> Obj([code |-> Num(code), message |-> Str(message)]),
             id |-> id])

\* The handler of the (single) request ran and returned normally
HandlerReturned == Len(calls) = 1 /\ func_body(calls[1][1], calls[1][2]).ok

\* The entries of the response when it is an array (none otherwise)
Entries == IF is_array(response) THEN response[2] ELSE <<>>

NonEmptyBatch == Returned /\ is_array(request) /\ ~empty(request)

\* The params of a request as a list: none, the one object, or the elements
ParamList(req) ==
    IF ~contains(req, "params") THEN <<>>
    ELSE IF is_object(req[2]["params"]) THEN <<req[2]["params"]>>
    ELSE req[2]["params"][2]

\* The types of the arguments of a handler that are bound from the params:
\* all of them but the context
ParamTypes(h) == IF h.Extra = "void" THEN h.Args ELSE Tail(h.Args)

Reserved == {"jsonrpc", "method", "params", "id"}

\* The members of a request object outside the reserved four, as an object
ExtraFieldsOf(req) == Obj([k \in DOMAIN req[2] \ Reserved |-> req[2][k]])

\* The json the context of the handler of req is made from in this call:
\* dispatcher_private merges the extra fields into the host data,
\* dispatcher::invoke hands over the host data
ContextOf(req) ==
    IF impl = "private" THEN merge_extra_fields(extra, ExtraFieldsOf(req)) ELSE extra

\* The context of handler h can be built for request req
ContextBuilt(h, req) == make_extra_tuple(h.Extra, ContextOf(req)).ok

\* A request whose handler must run: valid, with a registered method whose
\* parameter list the params fit and whose context can be built
Dispatchable(req) ==
    /\ Valid(req)
    /\ req[2]["method"][2] \in DOMAIN m_methods
    /\ ContextBuilt(m_methods[req[2]["method"][2]], req)
    /\ LET Args == ParamTypes(m_methods[req[2]["method"][2]])
           ps == ParamList(req)
       IN  \/ Args = <<"json">>
           \/ /\ Len(ps) = Len(Args)
              /\ \A i \in 1..Len(ps) :
                    /\ Args[i] = "int" => (is_number(ps[i]) \/ is_boolean(ps[i]))
                    /\ Args[i] = "subtract_params" =>
                          /\ is_object(ps[i])
                          /\ contains(ps[i], "minuend") /\ is_number(ps[i][2]["minuend"])
                          /\ contains(ps[i], "subtrahend") /\ is_number(ps[i][2]["subtrahend"])

\* The id a response to this batch element must carry
ExpectedId(e) ==
    IF is_object(e) /\ contains(e, "id")
       /\ (is_string(e[2]["id"]) \/ is_number(e[2]["id"]) \/ is_null(e[2]["id"]))
    THEN e[2]["id"] ELSE null

\* The k-th smallest member of a set of indexes
KthOf(S, k) == CHOOSE i \in S : Cardinality({j \in S : j < i}) = k - 1

-----------------------------------------------------------------------------
(* C1 *)

\* C1 as claimed: a single request object without an id member never gets a
\* response, at whatever stage it fails.
C1_NoResponseWithoutId ==
    (Returned /\ is_object(request) /\ ~contains(request, "id")) => is_discarded(response)

\* C1, amended: a request object without an id member gets no response when
\* it passes parsing and validation, whether its handler then succeeds, is not
\* found, cannot be bound or throws; when it fails parsing or validation it
\* gets an error response with id null.
C1_NotificationSilentOnceValid ==
    (Returned /\ is_object(request) /\ ~contains(request, "id")) =>
        IF Valid(request) THEN is_discarded(response)
        ELSE IsError(response) /\ response[2]["id"] = null

\* A notification whose handler threw, and nothing came back
C1_Witness ==
    /\ Returned /\ IsNotification(request)
    /\ Len(calls) = 1 /\ calls[1][1] = "throwing"
    /\ is_discarded(response)

-----------------------------------------------------------------------------
(* C2 *)

\* C2: a valid single request with a string or number id whose handler
\* returns normally gets a result object whose id is the id of the request,
\* the same value of the same type.
C2_IdEchoed ==
    (/\ Returned /\ Valid(request) /\ contains(request, "id")
     /\ (is_string(request[2]["id"]) \/ is_number(request[2]["id"]))
     /\ HandlerReturned)
    => /\ IsResult(response)
       /\ response[2]["id"] = request[2]["id"]
       /\ type_name(response[2]["id"]) = type_name(request[2]["id"])
       /\ response[2]["jsonrpc"] = Str("2.0")

\* A request with the number 3 as id answered with the number 3 as id
C2_Witness ==
    /\ Returned /\ Valid(request) /\ contains(request, "id")
    /\ request[2]["id"] = Num(3) /\ HandlerReturned
    /\ IsResult(response) /\ response[2]["id"] = Num(3)

-----------------------------------------------------------------------------
(* C3 *)

\* C3: a request with "id": null is not a notification: when its handler
\* succeeds the response is a result object with id null, not the discarded
\* value.
C3_NullIdAnswered ==
    (/\ Returned /\ Valid(request) /\ contains(request, "id")
     /\ is_null(request[2]["id"]) /\ HandlerReturned)
    => IsResult(response) /\ response[2]["id"] = null

-----------------------------------------------------------------------------
(* C4 *)

\* The elements of a batch that must be answered: all but the notifications
Answered == {i \in 1..Len(request[2]) : ~IsNotification(request[2][i])}

\* C4: the response to a non-empty batch holds one entry for every element
\* that is not a notification, in the order of the elements: the k-th entry
\* answers the k-th such element (it carries that element's id, or null when
\* the element has no usable id).  With nothing to answer there is no array.
C4_BatchResponsesInOrder ==
    NonEmptyBatch =>
        IF Answered = {} THEN is_discarded(response)
        ELSE /\ is_array(response)
             /\ Len(response[2]) = Cardinality(Answered)
             /\ \A k \in 1..Len(response[2]) :
                    /\ IsResult(response[2][k]) \/ IsError(response[2][k])
                    /\ response[2][k][2]["id"] = ExpectedId(request[2][KthOf(Answered, k)])

\* The same statement for dispatcher_private::process_request alone
C4_PrivateBatchResponsesInOrder == impl = "private" => C4_BatchResponsesInOrder

-----------------------------------------------------------------------------
(* C5 *)

\* How many entries of the response carry this id, and how many elements do
Answers(id) == Cardinality({k \in 1..Len(Entries) : Entries[k][2]["id"] = id})
Asks(id) == Cardinality({i \in 1..Len(request[2]) :
                            is_object(request[2][i]) /\ contains(request[2][i], "id")
                            /\ request[2][i][2]["id"] = id})

\* C5: in a batch every element is processed exactly once whatever happens to
\* the others (handlers throw std::exception or json_rpc::exception): the
\* handler of every dispatchable element runs once, and every element with a
\* string or number id gets exactly one entry with that id, also after an
\* element that failed.
C5_BatchElementsIsolated ==
    NonEmptyBatch =>
        /\ Len(calls) = Cardinality({i \in 1..Len(request[2]) : Dispatchable(request[2][i])})
        /\ \A id \in {Num(3), Str("1")} : Answers(id) = Asks(id)

\* A batch whose first element failed and whose second element was answered
\* with a result
C5_Witness ==
    /\ NonEmptyBatch /\ Len(request[2]) = 2
    /\ is_array(response) /\ Len(response[2]) = 2
    /\ IsError(response[2][1]) /\ IsResult(response[2][2])
    /\ Len(calls) = 1

-----------------------------------------------------------------------------
(* C6 *)

\* C6: a batch of notifications only (valid requests without id) yields the
\* discarded value, and no call ever returns an empty array.
C6_AllNotificationsDiscarded ==
    /\ (NonEmptyBatch /\ \A i \in 1..Len(request[2]) : IsNotification(request[2][i]))
            => is_discarded(response)
    /\ Returned => response # Arr(<<>>)

\* Two notifications, both handlers ran, nothing came back
C6_Witness ==
    /\ NonEmptyBatch /\ Len(request[2]) = 2
    /\ \A i \in 1..2 : IsNotification(request[2][i])
    /\ Len(calls) = 2
    /\ is_discarded(response)

-----------------------------------------------------------------------------
(* C7 *)

IsOnMethod(h) == h[1] = "on_method"

\* C7: an empty array yields one error object (not an array) with code
\* INVALID_REQUEST, the empty-batch message and id null; no handler runs and
\* on_method is not fired.
C7_EmptyBatch ==
    (Returned /\ request = Arr(<<>>)) =>
        /\ ErrorIs(response, INVALID_REQUEST, err_empty_batch, null)
        /\ ~is_array(response)
        /\ calls = <<>>
        /\ \A k \in 1..Len(hooks) : ~IsOnMethod(hooks[k])

\* The empty batch answered by a dispatcher with registered methods
C7_Witness ==
    /\ Returned /\ request = Arr(<<>>)
    /\ DOMAIN m_methods = MethodNames
    /\ IsError(response)

-----------------------------------------------------------------------------
(* C8 *)

\* C8: a batch whose elements are all non-objects yields an array of the same
\* length whose every entry is the INVALID_REQUEST error with the
\* not-a-JSON-RPC-2.0-request message and id null.
C8_NonObjectElements ==
    (NonEmptyBatch /\ \A i \in 1..Len(request[2]) : ~is_object(request[2][i])) =>
        /\ is_array(response)
        /\ Len(response[2]) = Len(request[2])
        /\ \A k \in 1..Len(response[2]) :
              ErrorIs(response[2][k], INVALID_REQUEST, err_not_jsonrpc_2_0_request, null)

\* A number and an array, answered by two errors
C8_Witness ==
    /\ Returned /\ request = Arr(<<Num(1), Arr(<<>>)>>)
    /\ is_array(response) /\ Len(response[2]) = 2

-----------------------------------------------------------------------------
(* C9 *)

\* C9: batching is one level deep.  A call enters the batch branch once for an
\* array and never otherwise; an array inside a batch is answered with one
\* INVALID_REQUEST error and its elements are not dispatched: no more handlers
\* run than the batch has objects, and every non-object element has its error.
C9_OneLevelOfBatching ==
    Returned =>
        /\ batches = IF is_array(request) THEN 1 ELSE 0
        /\ is_array(request) =>
            /\ Len(calls) <= Cardinality({i \in 1..Len(request[2]) : is_object(request[2][i])})
            /\ Cardinality({k \in 1..Len(Entries) :
                    ErrorIs(Entries[k], INVALID_REQUEST, err_not_jsonrpc_2_0_request, null)})
               >= Cardinality({i \in 1..Len(request[2]) : ~is_object(request[2][i])})
            /\ Len(Entries) <= Len(request[2])

\* A batch holding an array that holds a request for a registered method:
\* one error, and the handler did not run
C9_Witness ==
    /\ Returned /\ is_array(request) /\ Len(request[2]) = 1
    /\ is_array(request[2][1]) /\ Len(request[2][1][2]) = 1
    /\ Dispatchable(request[2][1][2][1])
    /\ calls = <<>>
    /\ response = Arr(<<generate_error_response(
                          exception(INVALID_REQUEST, err_not_jsonrpc_2_0_request, null), null)>>)

-----------------------------------------------------------------------------
(* C10 *)

\* The request has string jsonrpc and method members, so it reaches validation
Parses(req) ==
    /\ is_object(req)
    /\ contains(req, "jsonrpc") /\ is_string(req[2]["jsonrpc"])
    /\ contains(req, "method") /\ is_string(req[2]["method"])

BadVersion(req) == req[2]["jsonrpc"] # Str("2.0")
BadParams(req) ==
    contains(req, "params") /\ ~is_array(req[2]["params"]) /\ ~is_object(req[2]["params"])
EmptyMethod(req) == req[2]["method"] = Str("")
BadId(req) == contains(req, "id") /\ ExpectedId(req) # req[2]["id"]

\* The error of a failed request, whatever id it carries
ErrorOf(r) == r[2]["error"]
ErrorObject(code, message) == Obj([code |-> Num(code), message |-> Str(message)])

\* C10: validation checks the version, then the shape of params, then the
\* method, then the id, and the first check that fails gives the error: a bad
\* version wins over every other defect, scalar params win over an empty
\* method and a bad id, an empty method wins over a bad id.
C10_ValidationOrder ==
    (Returned /\ Parses(request)) =>
        /\ BadVersion(request) =>
              /\ IsError(response)
              /\ ErrorOf(response) = ErrorObject(INVALID_REQUEST, err_not_jsonrpc_2_0_request)
        /\ (~BadVersion(request) /\ BadParams(request)) =>
              /\ IsError(response)
              /\ ErrorOf(response) = ErrorObject(INVALID_PARAMS, err_bad_params_type)
        /\ (~BadVersion(request) /\ ~BadParams(request) /\ EmptyMethod(request)) =>
              /\ IsError(response)
              /\ ErrorOf(response) = ErrorObject(INVALID_REQUEST, err_empty_method)
        /\ (~BadVersion(request) /\ ~BadParams(request) /\ ~EmptyMethod(request)
                /\ BadId(request)) =>
              /\ IsError(response)
              /\ ErrorOf(response) = ErrorObject(INVALID_REQUEST, err_bad_id_type)

\* A request with every defect at once, reported as a bad version
C10_Witness ==
    /\ Returned /\ Parses(request)
    /\ BadVersion(request) /\ BadParams(request) /\ EmptyMethod(request) /\ BadId(request)
    /\ ErrorOf(response) = ErrorObject(INVALID_REQUEST, err_not_jsonrpc_2_0_request)

-----------------------------------------------------------------------------
(* C11 *)

\* The method a request object names, and the handler registered for it
MethodOf(req) == req[2]["method"][2]
Registered(req) == MethodOf(req) \in DOMAIN m_methods
HandlerOf(req) == m_methods[MethodOf(req)]
HasId(req) == contains(req, "id")

\* C11: a valid request with an id for a method that has no handler is
\* answered with the METHOD_NOT_FOUND error, message "Method not found", and
\* the request's id; no handler runs.
C11_MethodNotFound ==
    (Returned /\ Valid(request) /\ HasId(request) /\ ~Registered(request)) =>
        /\ ErrorIs(response, METHOD_NOT_FOUND, err_method_not_found, request[2]["id"])
        /\ calls = <<>>

\* A request for m2 with id "1" while only m1 is registered
C11_Witness ==
    /\ Returned /\ Valid(request) /\ HasId(request) /\ request[2]["id"] = Str("1")
    /\ MethodOf(request) = "m2" /\ DOMAIN m_methods = {"m1"}
    /\ IsError(response) /\ ErrorOf(response)[2]["code"] = Num(METHOD_NOT_FOUND)

-----------------------------------------------------------------------------
(* C12 *)

\* C12: an error response to a single request object carries the request's id
\* when that member is a string, a number or null, and null when the member
\* is absent or of another type, whatever stage failed.
C12_ErrorIdIsRequestId ==
    (Returned /\ is_object(request) /\ IsError(response)) =>
        response[2]["id"] = ExpectedId(request)

\* A request with id 3 that failed validation (empty method): the error
\* carries 3
C12_Witness ==
    /\ Returned /\ Parses(request) /\ ~BadVersion(request) /\ ~BadParams(request)
    /\ EmptyMethod(request) /\ HasId(request) /\ request[2]["id"] = Num(3)
    /\ IsError(response) /\ response[2]["id"] = Num(3)

-----------------------------------------------------------------------------
(* C13 *)

\* The batch elements whose handler is the one that throws std::invalid_argument
Throwers == {i \in 1..Len(request[2]) :
                /\ Dispatchable(request[2][i])
                /\ m_methods[MethodOf(request[2][i])].func = "throwing"}

\* C13: a handler that throws a standard exception that is not the typed error
\* gives the INTERNAL_ERROR error with the exception's text and the request's
\* id (nothing to a notification); process_request returns normally, and in a
\* batch such an element has its error and all the elements are still
\* processed.
C13_StdExceptionIsInternalError ==
    /\ (Returned /\ is_object(request) /\ Len(calls) = 1 /\ calls[1][1] = "throwing") =>
            IF HasId(request)
            THEN ErrorIs(response, INTERNAL_ERROR, "test", request[2]["id"])
            ELSE is_discarded(response)
    /\ NonEmptyBatch =>
        /\ \A i \in Throwers :
              (HasId(request[2][i]) /\ ~is_null(request[2][i][2]["id"])) =>
                  \E k \in 1..Len(Entries) :
                      ErrorIs(Entries[k], INTERNAL_ERROR, "test", request[2][i][2]["id"])
        /\ Len(calls) = Cardinality({i \in 1..Len(request[2]) : Dispatchable(request[2][i])})

\* A batch whose first element's handler threw and whose second element was
\* answered with a result
C13_Witness ==
    /\ NonEmptyBatch /\ Len(request[2]) = 2 /\ 1 \in Throwers
    /\ Len(calls) = 2 /\ calls[1][1] = "throwing"
    /\ is_array(response) /\ Len(response[2]) = 2
    /\ ErrorIs(response[2][1], INTERNAL_ERROR, "test", Num(3))
    /\ IsResult(response[2][2])

-----------------------------------------------------------------------------
(* C14 *)

\* C14: the typed error a handler throws is reported as it is: the error of
\* the response has the code, the message and the data of the thrown error.
C14_TypedErrorUnchanged ==
    (Returned /\ is_object(request) /\ HasId(request)
        /\ Len(calls) = 1 /\ calls[1][1] = "failing") =>
        /\ IsError(response)
        /\ ErrorOf(response) = Obj([code |-> Num(-1), message |-> Str("failed"),
                                    data |-> Num(123)])
        /\ response[2]["id"] = request[2]["id"]

\* The failing handler ran for a request with id 3
C14_Witness ==
    /\ Returned /\ is_object(request) /\ HasId(request) /\ request[2]["id"] = Num(3)
    /\ Len(calls) = 1 /\ calls[1][1] = "failing"
    /\ IsError(response) /\ ErrorOf(response)[2]["code"] = Num(-1)

-----------------------------------------------------------------------------
(* C15 *)

Generic(h) == ParamTypes(h) = <<"json">>

\* C15: for a handler that does not take the one generic value, params with a
\* number of elements other than the number of the handler's parameters (an
\* object counts as one element) give INVALID_PARAMS with the message
\* "Invalid parameters passed to method" and the request's id, and the handler
\* does not run.  Handlers of the model take no context parameter.
C15_ArityMismatch ==
    (Returned /\ Valid(request) /\ Registered(request) /\ ~Generic(HandlerOf(request))
        /\ Len(ParamList(request)) # Len(ParamTypes(HandlerOf(request)))) =>
        /\ calls = <<>>
        /\ IF HasId(request)
           THEN ErrorIs(response, INVALID_PARAMS, err_invalid_params_passed_to_method,
                        request[2]["id"])
           ELSE is_discarded(response)

\* Too many values for a handler of two, and an object for a handler of none
C15_Witness ==
    /\ Returned /\ Valid(request) /\ Registered(request) /\ HasId(request)
    /\ HandlerOf(request) = subtract_p
    /\ Len(ParamList(request)) = 3
    /\ calls = <<>> /\ IsError(response)

-----------------------------------------------------------------------------
(* C16 *)

NamedParams == Obj([minuend |-> Num(42), subtrahend |-> Num(23)])

\* C16: params sent as an object are bound as one structured argument: the
\* handler subtract(subtract_params) called with {minuend: 42, subtrahend: 23}
\* receives the structure and, for a string or number id, the result is 19.
C16_NamedParamsBound ==
    (Returned /\ Valid(request) /\ Registered(request) /\ HandlerOf(request) = subtract
        /\ contains(request, "params") /\ request[2]["params"] = NamedParams) =>
        /\ calls = << <<"subtract", <<[minuend |-> 42, subtrahend |-> 23]>> >> >>
        /\ (HasId(request) /\ ~is_null(request[2]["id"])) =>
              response = Obj([jsonrpc |-> Str("2.0"), result |-> Num(19),
                              id |-> request[2]["id"]])

\* subtract answered 19 to the request with id 3
C16_Witness ==
    /\ Returned /\ Valid(request) /\ Registered(request) /\ HandlerOf(request) = subtract
    /\ contains(request, "params") /\ request[2]["params"] = NamedParams
    /\ HasId(request) /\ request[2]["id"] = Num(3)
    /\ IsResult(response) /\ response[2]["result"] = Num(19)

-----------------------------------------------------------------------------
(* C17 *)

\* C17: a handler taking one generic JSON value receives the params as the
\* client sent them: null when params is omitted, the array when params is an
\* array, the object itself when params is an object.
C17_GenericHandlerSeesClientShape ==
    (Returned /\ Valid(request) /\ Registered(request) /\ Generic(HandlerOf(request))) =>
        /\ Len(calls) = 1
        /\ calls[1][2] = <<IF contains(request, "params") THEN request[2]["params"] ELSE null>>

-----------------------------------------------------------------------------
(* C18 *)

\* C18: a handler taking one generic JSON value is called with the whole
\* normalized params array, whatever its length, and is never refused with
\* INVALID_PARAMS.
C18_GenericHandlerTakesAnyLength ==
    (Returned /\ Valid(request) /\ Registered(request) /\ Generic(HandlerOf(request))) =>
        /\ calls = << <<HandlerOf(request).func, <<Arr(ParamList(request))>> >> >>
        /\ ~(IsError(response) /\ ErrorOf(response)[2]["code"] = Num(INVALID_PARAMS))

\* The generic handler called with three positional values
C18_Witness ==
    /\ Returned /\ Valid(request) /\ Registered(request) /\ HandlerOf(request) = echo
    /\ Len(ParamList(request)) = 3 /\ HasId(request) /\ request[2]["id"] = Str("1")
    /\ Len(calls) = 1 /\ Len(calls[1][2][1][2]) = 3
    /\ IsResult(response)

-----------------------------------------------------------------------------
(* C19 *)

\* A response object: jsonrpc "2.0", an id, and one of result and error
WellFormedResponse(r) ==
    /\ is_object(r)
    /\ contains(r, "jsonrpc") /\ r[2]["jsonrpc"] = Str("2.0")
    /\ contains(r, "id")
    /\ contains(r, "result") # contains(r, "error")

\* C19: every response that is not discarded is a response object with
\* jsonrpc "2.0", an id and exactly one of result and error, and so is every
\* entry of a batch response.
C19_ResponseShape ==
    Returned =>
        \/ is_discarded(response)
        \/ /\ is_array(response)
           /\ \A k \in 1..Len(response[2]) : WellFormedResponse(response[2][k])
        \/ WellFormedResponse(response)

\* A batch answered with a result and an error
C19_Witness ==
    /\ NonEmptyBatch /\ is_array(response) /\ Len(response[2]) = 2
    /\ IsResult(response[2][1]) /\ IsError(response[2][2])

-----------------------------------------------------------------------------
(* C20 *)

\* C20: registering under a name that is taken changes nothing: whatever is
\* registered, the registry keeps every handler it had, a new name gets the
\* handler given, and a request for a name runs the handler the registry
\* holds for it, which is the one of the first registration.
C20_FirstRegistrationWins ==
    /\ last_add # <<>> =>
          LET add == last_add[1]
          IN  /\ DOMAIN m_methods = DOMAIN add.before \cup {add.method}
              /\ \A n \in DOMAIN add.before : m_methods[n] = add.before[n]
              /\ add.method \notin DOMAIN add.before => m_methods[add.method] = add.handler
    /\ (Returned /\ is_object(request) /\ calls # <<>>) =>
          /\ Len(calls) = 1
          /\ Registered(request)
          /\ calls[1][1] = HandlerOf(request).func

\* A second registration of another handler under a taken name, and the
\* registry still holding the first
C20_Witness ==
    /\ last_add # <<>>
    /\ last_add[1].method \in DOMAIN last_add[1].before
    /\ last_add[1].handler # last_add[1].before[last_add[1].method]
    /\ m_methods[last_add[1].method] = last_add[1].before[last_add[1].method]

-----------------------------------------------------------------------------
(* C21 .. C26: the hooks on_request, on_method and on_request_processed.     *)
(* They are fired by dispatcher_private (dispatcher_p.cpp) only; the code of *)
(* dispatcher.cpp has no call of them, so these claims are about the calls   *)
(* that went through dispatcher_private::process_request.                    *)

Private == Returned /\ impl = "private"

IsOnRequest(h) == h[1] = "on_request"
IsHandler(h) == h[1] = "handler"
IsProcessed(h) == h[1] = "on_request_processed"

\* How many of the hook calls satisfy a test
Count(Test(_)) == Cardinality({k \in 1..Len(hooks) : Test(hooks[k])})

\* The request objects a call processes: the elements of a non-empty batch,
\* else the input itself (the empty batch counts as one)
Processed ==
    IF is_array(request) /\ ~empty(request) THEN request[2] ELSE <<request>>

\* The on_request_processed calls, in order
ProcessedCalls == SelectSeq(hooks, IsProcessed)

\* C21: on_request_processed fires exactly once for every request processed:
\* a single request, every element of a batch (objects or not), the empty
\* batch as a whole; on success, on failure and for a suppressed notification.
C21_ProcessedOncePerRequest ==
    Private => Count(IsProcessed) = Len(Processed)

\* A batch of a notification that succeeded and one whose method is unknown:
\* no response, two on_request_processed
C21_Witness ==
    /\ Private /\ NonEmptyBatch /\ Len(request[2]) = 2
    /\ \A i \in 1..2 : IsNotification(request[2][i])
    /\ is_discarded(response)
    /\ Len(calls) = 1
    /\ Count(IsProcessed) = 2

-----------------------------------------------------------------------------
(* C22 *)

\* The element of the input the k-th hook call belongs to: the number of
\* on_request calls up to it
ElementOf(k) == Cardinality({j \in 1..k : IsOnRequest(hooks[j])})

\* C22: for each request the hooks fire in the order on_request, on_method
\* (if a handler was found), the handler, on_request_processed, and the calls
\* of one batch element all come before those of the next: the sequence of
\* hook calls is one such run per request, each run for the method of its
\* own element, and the handler entries are the handlers that ran.
C22_HookOrder ==
    (Private /\ hooks # <<>>) =>
        /\ IsOnRequest(hooks[1])
        /\ IsProcessed(hooks[Len(hooks)])
        /\ \A k \in 2..Len(hooks) :
              /\ IsOnRequest(hooks[k]) => IsProcessed(hooks[k - 1])
              /\ IsOnMethod(hooks[k]) =>
                    /\ IsOnRequest(hooks[k - 1])
                    /\ ElementOf(k) <= Len(Processed)
                    /\ Valid(Processed[ElementOf(k)])
                    /\ hooks[k][2] = MethodOf(Processed[ElementOf(k)])
              /\ IsHandler(hooks[k]) => IsOnMethod(hooks[k - 1])
              /\ IsProcessed(hooks[k]) => ~IsProcessed(hooks[k - 1])
        /\ SelectSeq(hooks, IsHandler) = [k \in 1..Len(calls) |-> handler_called(calls[k][1])]

\* A batch of two requests whose handlers both ran: eight calls in order
C22_Witness ==
    /\ Private /\ NonEmptyBatch /\ Len(request[2]) = 2
    /\ Len(calls) = 2 /\ Len(hooks) = 8
    /\ IsOnRequest(hooks[5]) /\ IsOnMethod(hooks[6]) /\ IsHandler(hooks[7])
    /\ hooks[2][2] # hooks[6][2]

-----------------------------------------------------------------------------
(* C23 *)

\* C23: on_method fires exactly for the requests that passed parsing and
\* validation and name a registered method, once each: not for a non-object,
\* a request that fails parsing or validation, or an unknown method, and also
\* when the handler is then not called because binding the parameters fails.
C23_OnMethodIffHandlerFound ==
    Private =>
        Count(IsOnMethod) =
            Cardinality({i \in 1..Len(Processed) :
                            Valid(Processed[i]) /\ Registered(Processed[i])})

\* A request for a registered method with too many params: on_method fired,
\* the handler did not run
C23_Witness ==
    /\ Private /\ Valid(request) /\ Registered(request) /\ HasId(request)
    /\ Count(IsOnMethod) = 1 /\ calls = <<>>
    /\ IsError(response) /\ ErrorOf(response)[2]["code"] = Num(INVALID_PARAMS)

-----------------------------------------------------------------------------
(* C24 *)

\* C24: in a non-empty batch on_request fires once per element and not for
\* the batch itself; for the empty batch it fires once and is followed by one
\* on_request_processed with no method name and INVALID_REQUEST.
C24_OnRequestPerElement ==
    (Private /\ is_array(request)) =>
        IF empty(request)
        THEN hooks = <<on_request, on_request_processed("", INVALID_REQUEST)>>
        ELSE Count(IsOnRequest) = Len(request[2])

\* A batch of an object and a number: two on_request
C24_Witness ==
    /\ Private /\ NonEmptyBatch /\ Len(request[2]) = 2
    /\ is_object(request[2][1]) /\ ~is_object(request[2][2])
    /\ Count(IsOnRequest) = 2

-----------------------------------------------------------------------------
(* C25 *)

\* How many handler calls returned normally
ReturnedCalls == Cardinality({k \in 1..Len(calls) : func_body(calls[k][1], calls[k][2]).ok})

\* The outcome a failed request is reported with when no response shows it
FailureCode ==
    IF ~Registered(request) THEN {METHOD_NOT_FOUND}
    ELSE IF calls = <<>> THEN {INVALID_PARAMS, INVALID_REQUEST}
    ELSE IF func_body(calls[1][1], calls[1][2]).kind = "rpc"
         THEN {func_body(calls[1][1], calls[1][2]).e.code}
    ELSE {INTERNAL_ERROR}

\* C25: the outcome given to on_request_processed is that of the response:
\* 0 exactly when the handler returned normally, else the code of the error
\* response, or, for a notification, the code of the error not sent.
C25_OutcomeMatchesResponse ==
    Private =>
        /\ Cardinality({k \in 1..Len(ProcessedCalls) : ProcessedCalls[k][3] = 0}) = ReturnedCalls
        /\ ~is_array(request) =>
              LET code == ProcessedCalls[1][3]
              IN  /\ code = 0 <=> HandlerReturned
                  /\ IsError(response) => ErrorOf(response)[2]["code"] = Num(code)
                  /\ IsResult(response) => code = 0
                  /\ (is_discarded(response) /\ code # 0) => code \in FailureCode
        /\ (is_array(request) /\ ~empty(request)) =>
              \A k \in 1..Len(Entries) :
                 LET code == ProcessedCalls[KthOf(Answered, k)][3]
                 IN  /\ IsResult(Entries[k]) <=> code = 0
                     /\ IsError(Entries[k]) => ErrorOf(Entries[k])[2]["code"] = Num(code)

\* The handler threw its typed error with code -1: the hook was told -1
C25_Witness ==
    /\ Private /\ is_object(request) /\ HasId(request)
    /\ Len(calls) = 1 /\ calls[1][1] = "failing"
    /\ ProcessedCalls = <<on_request_processed(MethodOf(request), -1)>>
    /\ IsError(response)

-----------------------------------------------------------------------------
(* C26 *)

\* C26: the method name given to on_request_processed is the request's method
\* when the request passed parsing and validation, registered or not, and
\* the empty string for a request that failed parsing or validation, for a
\* batch element that is not an object and for the empty batch.
C26_ProcessedMethodName ==
    Private =>
        /\ Len(ProcessedCalls) = Len(Processed)
        /\ \A k \in 1..Len(ProcessedCalls) :
              ProcessedCalls[k][2] =
                  IF Valid(Processed[k]) THEN MethodOf(Processed[k]) ELSE ""

\* A valid request for a method that is not registered: the hook gets its name
C26_Witness ==
    /\ Private /\ Valid(request) /\ ~Registered(request) /\ HasId(request)
    /\ ProcessedCalls = <<on_request_processed(MethodOf(request), METHOD_NOT_FOUND)>>

-----------------------------------------------------------------------------
(* C27 *)

\* ctx is what a handler with a json context must be given for this request
ContextFor(ctx, req) ==
    /\ (is_object(extra) /\ ~empty(ExtraFieldsOf(req))) =>
          /\ is_object(ctx)
          /\ DOMAIN ctx[2] = DOMAIN extra[2] \cup {"extra"}
          /\ ctx[2]["extra"] = ExtraFieldsOf(req)
          /\ \A k \in DOMAIN extra[2] \ {"extra"} : ctx[2][k] = extra[2][k]
    /\ ~is_object(extra) => ctx = extra

\* The calls of handlers that take the context as json
JsonContextCalls == {k \in 1..Len(calls) : calls[k][1] = extra_json.func}

\* C27: a handler with a json context receives, when the host data is an
\* object and the request has members outside jsonrpc/method/params/id, the
\* host object with the one added key extra holding exactly those members,
\* and when the host data is not an object, the host data unchanged.
C27_ContextIsHostDataPlusExtra ==
    Private =>
        \A k \in JsonContextCalls :
            \E i \in 1..Len(Processed) :
                /\ Dispatchable(Processed[i])
                /\ HandlerOf(Processed[i]) = extra_json
                /\ (~is_array(request) \/ Len(calls) = Len(Processed)) => i = k
                /\ ContextFor(calls[k][2][1], Processed[i])

\* The handler received {"ip": "127.0.0.1", "extra": {"auth": "secret"}}
C27_Witness ==
    /\ Private /\ is_object(request) /\ HasId(request)
    /\ ~empty(ExtraFieldsOf(request))
    /\ is_object(extra)
    /\ JsonContextCalls = {1}
    /\ calls[1][2][1] = Obj([ip |-> Str("127.0.0.1"),
                             extra |-> Obj([auth |-> Str("secret")])])
    /\ IsResult(response)

\* With null as host data the handler received null, whatever the request adds
C27_WitnessNull ==
    /\ Private /\ is_object(request) /\ ~empty(ExtraFieldsOf(request))
    /\ is_null(extra)
    /\ JsonContextCalls = {1}
    /\ is_null(calls[1][2][1])

-----------------------------------------------------------------------------
(* C28 *)

\* A request with an id for a registered handler that declares a context
\* which cannot be built from the host data of this call
ContextFails(req) ==
    /\ Valid(req) /\ Registered(req) /\ HasId(req)
    /\ HandlerOf(req).Extra # "void"
    /\ ~ContextBuilt(HandlerOf(req), req)

-----------------------------------------------------------------------------
(* C29 *)

TextReturned == pc = "text_returned"

\* The response text read back as a value
ResponseValue == parse(response).value

\* C29: parse_and_process_request on a text that is not well-formed JSON (the
\* empty text and a batch cut off after a valid first element among them)
\* returns the text of exactly one error object with code PARSE_ERROR and id
\* null, calls no handler, and fires on_request and on_request_processed once
\* each.
C29_ParseErrorOnMalformedText ==
    (TextReturned /\ request \in MalformedTexts) =>
        /\ parse(response).ok
        /\ IsError(ResponseValue)
        /\ ErrorOf(ResponseValue)[2]["code"] = Num(PARSE_ERROR)
        /\ contains(ResponseValue, "id") /\ is_null(ResponseValue[2]["id"])
        /\ calls = <<>>
        /\ Count(IsOnRequest) = 1
        /\ Count(IsProcessed) = 1
        /\ Count(IsOnMethod) = 0

\* The cut-off batch whose first element names a registered handler: one
\* PARSE_ERROR object, the handler was not called
C29_Witness ==
    /\ TextReturned /\ request = CutOffBatchText
    /\ "m1" \in DOMAIN m_methods /\ m_methods["m1"] = no_params
    /\ calls = <<>>
    /\ response = dump(generate_error_response(
                           exception(PARSE_ERROR, err_parse_error, null), null))

\* A text that is JSON is answered as process_request answers its value
C29_WellFormedTextProcessed ==
    (TextReturned /\ request \in WellFormedTexts) =>
        /\ parse(request).ok
        /\ \E out \in private_process_request(m_methods, parse(request).value, extra) :
              /\ response = serialize_repsonse(out.response)
              /\ hooks = out.hooks /\ calls = out.calls

-----------------------------------------------------------------------------
(* C30 *)

\* The error every batch element that is not an object is answered with
NotARequestError ==
    generate_error_response(exception(INVALID_REQUEST, err_not_jsonrpc_2_0_request, null), null)

\* C30: an input that is neither an array nor an object (a number, a string,
\* a boolean, null) is answered with the INVALID_REQUEST error with the
\* message "not a JSON-RPC 2.0 request" and id null, the error a batch
\* element that is not an object gets.
C30_TopLevelScalarIsNotARequest ==
    (Returned /\ ~is_array(request) /\ ~is_object(request)) =>
        /\ ErrorIs(response, INVALID_REQUEST, err_not_jsonrpc_2_0_request, null)
        /\ response = NotARequestError

-----------------------------------------------------------------------------
(* C31, C32: checked under FunctionSpec *)

Rendered == pc = "done" /\ impl = "to_json"

\* C31: the error object rendered from a typed error has exactly the members
\* code and message, holding the error's code and message, plus the member
\* data, holding the error's data, if and only if that data is not null.
C31_ErrorObjectMembers ==
    Rendered =>
        /\ is_object(response)
        /\ DOMAIN response[2] =
              {"code", "message"} \cup (IF is_null(request.data) THEN {} ELSE {"data"})
        /\ response[2]["code"] = Num(request.code)
        /\ response[2]["message"] = Str(request.message)
        /\ ~is_null(request.data) => response[2]["data"] = request.data

\* An error with data 123 rendered with the member data
C31_Witness ==
    /\ Rendered /\ request = exception(PARSE_ERROR, "Parse error", Num(123))
    /\ response = Obj([code |-> Num(PARSE_ERROR), message |-> Str("Parse error"),
                       data |-> Num(123)])

\* An error without data rendered with code and message only
C31_WitnessNoData ==
    /\ Rendered /\ request = exception(PARSE_ERROR, "Parse error", null)
    /\ DOMAIN response[2] = {"code", "message"}

Serialized == pc = "done" /\ impl = "serialize_repsonse"

\* C32: serialize_repsonse returns the empty text if and only if the response
\* is the discarded value; every other value, the empty object, the empty
\* array, null and the empty string among them, gives a text that is not empty
\* and that reads back as the value.
C32_EmptyTextIffDiscarded ==
    Serialized =>
        /\ response = <<>> <=> is_discarded(request)
        /\ ~is_discarded(request) => parse(response) = Value(request)

\* The empty object serialized as the two characters {}
C32_Witness ==
    /\ Serialized /\ request = EmptyObject
    /\ response = <<LBrace, RBrace>>

\* The discarded value serialized as the empty text
C32_WitnessDiscarded ==
    /\ Serialized /\ is_discarded(request) /\ response = <<>>

-----------------------------------------------------------------------------
(* C33 *)

\* The outcome of a valid single request, told from the input and the
\* registry: 0 when the handler returns, else the code of its failure
OutcomeOf(req) ==
    IF ~Registered(req) THEN {METHOD_NOT_FOUND}
    ELSE IF ~Dispatchable(req) THEN {INVALID_PARAMS, INVALID_REQUEST}
    ELSE LET h == HandlerOf(req)
         IN  IF h \in {throwing} THEN {INTERNAL_ERROR}
             ELSE IF h \in {failing} THEN {-1}
             ELSE {0}

\* C33: a request without id that passes parsing and validation gets the
\* discarded value from process_request whatever happens then (the handler
\* returns, the method is unknown, the params cannot be bound, the handler
\* throws), and dispatcher_private fires on_request_processed once, with the
\* request's method and the outcome of that stage.
C33_NotificationDiscardedInEveryOutcome ==
    (Returned /\ IsNotification(request)) =>
        /\ is_discarded(response)
        /\ Dispatchable(request) <=> Len(calls) = 1
        /\ impl = "private" =>
              /\ Len(ProcessedCalls) = 1
              /\ ProcessedCalls[1][2] = MethodOf(request)
              /\ ProcessedCalls[1][3] \in OutcomeOf(request)

\* A notification whose params do not fit its handler: nothing returned, the
\* handler not called, INVALID_PARAMS reported to on_request_processed
C33_Witness ==
    /\ Private /\ IsNotification(request) /\ Registered(request)
    /\ calls = <<>>
    /\ is_discarded(response)
    /\ ProcessedCalls = <<on_request_processed(MethodOf(request), INVALID_PARAMS)>>

\* The same in dispatcher::process_request, for a handler that threw
C33_WitnessDispatcher ==
    /\ Returned /\ impl = "dispatcher" /\ IsNotification(request)
    /\ Len(calls) = 1 /\ calls[1][1] = "failing"
    /\ is_discarded(response)

-----------------------------------------------------------------------------
(* C34 *)

\* The request object has a params member that is neither an array nor an
\* object: a number, a string, a boolean or null
ScalarParams(req) == is_object(req) /\ BadParams(req)

\* What a handler is called with comes from the normalized params array:
\* a generic handler has the array itself, another one an argument for each
\* of its elements
CalledWithArray(call, req) ==
    LET h == HandlerOf(req)
    IN  IF Generic(h) THEN call[2][Len(call[2])] = Arr(ParamList(req))
        ELSE Len(call[2]) = Len(ParamList(req)) + (IF h.Extra = "void" THEN 0 ELSE 1)

\* C34 as stated: the handler is handed the normalized array, and scalar
\* params are rejected with INVALID_PARAMS before the method is looked up.
C34_ScalarParamsAreInvalidParams ==
    (Returned /\ is_object(request)) =>
        /\ calls # <<>> => (~ScalarParams(request) /\ CalledWithArray(calls[1], request))
        /\ ScalarParams(request) =>
              /\ IsError(response)
              /\ ErrorOf(response) = ErrorObject(INVALID_PARAMS, err_bad_params_type)

\* C34, amended: the handler is handed the normalized array (the empty array
\* for absent params, the one-element array for an object, the array itself);
\* a request with scalar params never reaches method lookup or a handler and
\* is answered with an error: INVALID_PARAMS when its jsonrpc member is "2.0"
\* and its method member is a string, INVALID_REQUEST when it is not.
C34_ParamsArrayOrRejected ==
    (Returned /\ is_object(request)) =>
        /\ calls # <<>> => (~ScalarParams(request) /\ CalledWithArray(calls[1], request))
        /\ ScalarParams(request) =>
              /\ calls = <<>>
              /\ \A k \in 1..Len(hooks) : ~IsOnMethod(hooks[k])
              /\ IsError(response)
              /\ ErrorOf(response)[2]["code"] =
                    IF Parses(request) /\ ~BadVersion(request)
                    THEN Num(INVALID_PARAMS) ELSE Num(INVALID_REQUEST)
              /\ (Parses(request) /\ ~BadVersion(request)) =>
                    ErrorOf(response) = ErrorObject(INVALID_PARAMS, err_bad_params_type)

\* params null for a registered generic handler: INVALID_PARAMS, no call
C34_Witness ==
    /\ Returned /\ is_object(request) /\ ScalarParams(request)
    /\ is_null(request[2]["params"])
    /\ Parses(request) /\ Registered(request) /\ Generic(HandlerOf(request))
    /\ calls = <<>>
    /\ ErrorOf(response) = ErrorObject(INVALID_PARAMS, err_bad_params_type)

\* An object handed to a generic handler inside a one-element array
C34_WitnessObject ==
    /\ Returned /\ Valid(request) /\ contains(request, "params")
    /\ is_object(request[2]["params"])
    /\ Len(calls) = 1 /\ calls[1][1] = "echo"
    /\ calls[1][2] = <<Arr(<<request[2]["params"]>>)>>

-----------------------------------------------------------------------------
(* C35 *)

\* The diagnostics of the positional elements of a request that cannot be
\* converted to the types its handler takes
Diagnostics(req) ==
    LET types == ParamTypes(HandlerOf(req))
        ps == ParamList(req)
    IN  {get_as(types[i], ps[i]).what : i \in {k \in 1..Len(ps) : ~get_as(types[k], ps[k]).ok}}

\* A valid request with an id whose params are as many as its handler takes,
\* one of which cannot be converted
ConversionFails(req) ==
    /\ Valid(req) /\ Registered(req) /\ HasId(req)
    /\ ~Generic(HandlerOf(req))
    /\ Len(ParamList(req)) = Len(ParamTypes(HandlerOf(req)))
    /\ Diagnostics(req) # {}

\* The request is answered INVALID_PARAMS with a conversion diagnostic, its
\* handler is not called, on_method has fired
AnsweredInvalidParams(req) ==
    /\ calls = <<>>
    /\ IsError(response)
    /\ response[2]["id"] = req[2]["id"]
    /\ DOMAIN ErrorOf(response)[2] = {"code", "message"}
    /\ ErrorOf(response)[2]["code"] = Num(INVALID_PARAMS)
    /\ ErrorOf(response)[2]["message"] \in {Str(d) : d \in Diagnostics(req)}
    /\ impl = "private" =>
          hooks = <<on_request, on_method(MethodOf(req)),
                    on_request_processed(MethodOf(req), INVALID_PARAMS)>>

C35_ConversionFailureWithContextBuilt ==
    (Returned /\ is_object(request) /\ ConversionFails(request)
        /\ ContextBuilt(HandlerOf(request), request)) =>
        AnsweredInvalidParams(request)

\* ["a", "b"] for subtract_p(int, int): type must be number, but is string
C35_Witness ==
    /\ Private /\ is_object(request) /\ ConversionFails(request)
    /\ HandlerOf(request) = subtract_p
    /\ ErrorOf(response) =
          ErrorObject(INVALID_PARAMS, json_type_must_be("number", Str("a")))
    /\ calls = <<>>

-----------------------------------------------------------------------------
(* C36 *)

\* ctx is the host data of this call with nothing of a request added but the
\* extra fields of req, under the key extra
OwnContext(ctx, req) ==
    IF ~is_object(extra) THEN ctx = extra
    ELSE /\ is_object(ctx)
         /\ DOMAIN ctx[2] \subseteq DOMAIN extra[2] \cup {"extra"}
         /\ \A k \in DOMAIN extra[2] \ {"extra"} : ctx[2][k] = extra[2][k]
         /\ ~empty(ExtraFieldsOf(req)) => "extra" \in DOMAIN ctx[2]
         /\ "extra" \in DOMAIN ctx[2] => ctx[2]["extra"] = ExtraFieldsOf(req)

\* The handler call the k-th hook entry stands for
CallOf(k) == calls[Cardinality({j \in 1..k : IsHandler(hooks[j])})]

\* C36: in a batch every element is given the host data passed to
\* process_request plus its own extra fields only: on_request sees the host
\* data, the hooks after it and the handler see the host data with the extra
\* fields of their own element and of no other, and an element that cannot
\* be parsed is reported with the host data unchanged.
C36_BatchContextsAreOwn ==
    (Private /\ is_array(request) /\ ~empty(request)) =>
        \A i \in 1..Len(hooks) :
            LET elem == request[2][ElementOf(i)]
            IN  /\ IsOnRequest(hooks[i]) => hook_extra[i] = extra
                /\ (IsOnMethod(hooks[i]) \/ IsProcessed(hooks[i])) =>
                        IF Parses(elem) THEN OwnContext(hook_extra[i], elem)
                        ELSE hook_extra[i] = extra
                /\ (IsHandler(hooks[i]) /\ hooks[i][2] = extra_json.func) =>
                        OwnContext(CallOf(i)[2][1], elem)
                /\ (IsHandler(hooks[i]) /\ hooks[i][2] = extra_full.func) =>
                        CallOf(i)[2][1].extra = ExtraFieldsOf(elem)

\* Two elements with different extra fields, both handled by the handler
\* with a json context: each call saw its own fields
C36_Witness ==
    /\ Private /\ is_array(request) /\ Len(request[2]) = 2
    /\ Valid(request[2][1]) /\ ExtraFieldsOf(request[2][1]) = ExtraMembers
    /\ Valid(request[2][2]) /\ ExtraFieldsOf(request[2][2]) = UserMembers
    /\ Len(calls) = 2
    /\ calls[1][1] = extra_json.func /\ calls[2][1] = extra_json.func
    /\ calls[1][2][1] = Obj([ip |-> Str("127.0.0.1"), extra |-> ExtraMembers])
    /\ calls[2][2][1] = Obj([ip |-> Str("127.0.0.1"), extra |-> UserMembers])
    /\ hook_extra[Len(hooks)] = calls[2][2][1]

\* An element with extra fields followed by one without: the second call saw
\* the host data alone
C36_WitnessNoneCarried ==
    /\ Private /\ is_array(request) /\ Len(request[2]) = 2
    /\ Valid(request[2][1]) /\ ExtraFieldsOf(request[2][1]) = ExtraMembers
    /\ Valid(request[2][2]) /\ empty(ExtraFieldsOf(request[2][2]))
    /\ Len(calls) = 2
    /\ calls[1][1] = extra_json.func /\ calls[2][1] = extra_json.func
    /\ calls[2][2][1] = extra

\* An element that cannot be parsed although it has extra fields: its hooks
\* saw the host data alone
C36_WitnessUnparsed ==
    /\ Private /\ is_array(request) /\ Len(request[2]) = 1
    /\ is_object(request[2][1]) /\ ~Parses(request[2][1])
    /\ ~empty(ExtraFieldsOf(request[2][1]))
    /\ is_object(extra)
    /\ hook_extra = <<extra, extra>>

-----------------------------------------------------------------------------
(* C37 *)

ProcessedWithExtra(code) ==
    /\ Private /\ is_object(request) /\ Parses(request)
    /\ is_object(extra) /\ ~empty(ExtraFieldsOf(request))
    /\ hooks[Len(hooks)] = on_request_processed(IF Valid(request) THEN MethodOf(request) ELSE "",
                                                code)
    /\ hook_extra[Len(hooks)][2]["extra"] = ExtraFieldsOf(request)

C37_WitnessNotFound == ProcessedWithExtra(METHOD_NOT_FOUND)

\* A valid request whose params do not fit the handler
C37_WitnessBinding == ProcessedWithExtra(INVALID_PARAMS) /\ Valid(request) /\ calls = <<>>

\* An object that cannot be parsed, with extra fields
C37_WitnessUnparsed ==
    /\ Private /\ is_array(request) /\ Len(request[2]) = 1
    /\ is_object(request[2][1]) /\ ~Parses(request[2][1])
    /\ ~empty(ExtraFieldsOf(request[2][1]))
    /\ is_object(extra)
    /\ hooks[2] = on_request_processed("", INVALID_REQUEST)
    /\ hook_extra[2] = extra

-----------------------------------------------------------------------------
(* C38 *)

\* Every outcome the last call could have had on its input, host data and
\* registry
Outcomes ==
    IF impl = "private" THEN private_process_request(m_methods, request, extra)
    ELSE process_request(m_methods, request, extra)

C38_WitnessRightToLeft ==
    /\ Returned /\ build = "right_to_left"
    /\ is_object(request) /\ Valid(request) /\ HasId(request) /\ Registered(request)
    /\ HandlerOf(request) = extra_ip /\ is_null(extra)
    /\ Len(ParamList(request)) = 2 /\ Cardinality(Diagnostics(request)) = 2
    /\ IsError(response) /\ ErrorOf(response)[2]["code"] = Num(INVALID_PARAMS)
    /\ ErrorOf(response)[2]["message"] = Str(json_type_must_be("number", null))

\* A batch processed after both names were registered
C38_WitnessBatch ==
    /\ Returned /\ build \in Builds /\ is_array(request) /\ Len(request[2]) = 2
    /\ DOMAIN m_methods = MethodNames /\ Len(calls) = 2

-----------------------------------------------------------------------------
(* C39 *)

\* The host data of this call has a key extra of its own
HostHasExtra == is_object(extra) /\ contains(extra, "extra")

\* ctx has a key extra that is not the host's
ExtraAdded(ctx) ==
    /\ is_object(ctx) /\ contains(ctx, "extra")
    /\ ~(HostHasExtra /\ ctx[2]["extra"] = extra[2]["extra"])

\* A valid request without extra fields for the handler whose context type
\* reads the key extra, the host data having none
NeedsExtra(req) ==
    /\ Valid(req) /\ Registered(req) /\ HandlerOf(req) = extra_full
    /\ empty(ExtraFieldsOf(req))
    /\ ~HostHasExtra

\* C39: the key extra is added to the context exactly when the host data is
\* an object and the request has a member outside the reserved four; for a
\* request without such members the handler is given the host data as it is
\* (no empty extra object), so a handler whose context type reads extra is
\* not called for such a request and a request with an id gets an error.
C39_ExtraKeyOnlyWithExtraFields ==
    /\ (Private /\ is_object(request)) =>
          \A k \in JsonContextCalls :
              /\ ExtraAdded(calls[k][2][1])
                    <=> (is_object(extra) /\ ~empty(ExtraFieldsOf(request)))
              /\ empty(ExtraFieldsOf(request)) => calls[k][2][1] = extra
    /\ (Returned /\ is_object(request) /\ NeedsExtra(request)) =>
          /\ calls = <<>>
          /\ HasId(request) => IsError(response)

\* The handler with the extra_data context, host data {"ip": "127.0.0.1"}, a
\* request with the two params and no extra fields: key 'extra' not found
C39_Witness ==
    /\ Private /\ is_object(request) /\ NeedsExtra(request) /\ HasId(request)
    /\ extra = Obj([ip |-> Str("127.0.0.1")])
    /\ Len(ParamList(request)) = 2 /\ Diagnostics(request) = {}
    /\ calls = <<>>
    /\ ErrorIs(response, INVALID_REQUEST, json_key_not_found("extra"), request[2]["id"])

\* The handler with the json context was given the host object as it is
C39_WitnessHostOnly ==
    /\ Private /\ is_object(request) /\ empty(ExtraFieldsOf(request))
    /\ JsonContextCalls = {1}
    /\ calls[1][2][1] = Obj([ip |-> Str("127.0.0.1")])

\* With extra fields the same handler is called and sees them
C39_WitnessBound ==
    /\ Private /\ is_object(request) /\ ~empty(ExtraFieldsOf(request))
    /\ Len(calls) = 1 /\ calls[1][1] = extra_full.func
    /\ calls[1][2][1] = [ip |-> "127.0.0.1", extra |-> ExtraFieldsOf(request)]

-----------------------------------------------------------------------------
(* C40 *)

\* What the handlers with a json context and the hooks of the last call were
\* given as context
Seen ==
    {calls[k][2][1] : k \in JsonContextCalls}
    \cup {hook_extra[i] : i \in 1..Len(hook_extra)}

\* The calls of the handlers whose context type reads the key ip
TypedContextCalls == {k \in 1..Len(calls) : calls[k][1] \in {extra_ip.func, extra_full.func}}

\* Everything seen has, under each of these keys, the value of the host data
HostKeysKept(keys) ==
    /\ \A ctx \in Seen :
          is_object(ctx) /\ \A k \in keys : contains(ctx, k) /\ ctx[2][k] = extra[2][k]
    /\ "ip" \in keys => \A k \in TypedContextCalls : Str(calls[k][2][1].ip) = extra[2]["ip"]

\* The statement for every key of the host data, the key extra included
C40_HostFieldsNotReplaced ==
    (Private /\ is_object(extra)) => HostKeysKept(DOMAIN extra[2])

\* C40: whatever members the request has, the handler and the hooks see,
\* under every key of the host data object other than extra, the value the
\* host passed; the key extra is the one the dispatcher sets to the extra
\* fields of the request, replacing a value the host put there.
C40_HostFieldsButExtraNotReplaced ==
    (Private /\ is_object(extra)) => HostKeysKept(DOMAIN extra[2] \ {"extra"})

\* A request with members named ip and extra: the handler saw the ip of the
\* host, and the members of the request under the key extra
C40_Witness ==
    /\ Private /\ is_object(request) /\ ExtraFieldsOf(request) = SpoofMembers
    /\ is_object(extra)
    /\ JsonContextCalls = {1}
    /\ calls[1][2][1][2]["ip"] = Str("127.0.0.1")
    /\ calls[1][2][1][2]["extra"] = SpoofMembers

\* The same for the handler with the extra_data context
C40_WitnessTyped ==
    /\ Private /\ is_object(request) /\ ExtraFieldsOf(request) = SpoofMembers
    /\ Len(calls) = 1 /\ calls[1][1] = extra_full.func
    /\ calls[1][2][1] = [ip |-> "127.0.0.1", extra |-> SpoofMembers]

\* Host data with a key extra of its own and a request with extra fields:
\* the handler saw the fields of the request in its place
C40_WitnessHostExtraReplaced ==
    /\ Private /\ is_object(request) /\ HostHasExtra
    /\ JsonContextCalls = {1}
    /\ calls[1][2][1][2]["extra"] = ExtraFieldsOf(request)
    /\ calls[1][2][1][2]["extra"] # extra[2]["extra"]

=============================================================================
